---------------------------- MODULE Spec2Model ----------------------------
(***************************************************************************)
(* A model of the SecureVault password manager (jagan321/private-paw):     *)
(*   src/src/lib/crypto.ts   - key derivation, AES-GCM codec, base64       *)
(*   src/src/pages/Index.tsx - lines 45-173 hold lib/vault: the storage    *)
(*                             slots and createVault / unlockVault /       *)
(*                             saveVault / deleteVault / importVault       *)
(*                                                                         *)
(* Strings are sequences of Unicode scalar values (BMP code points),       *)
(* buffers are sequences of bytes 0..255.  The Web Crypto primitives       *)
(* (PBKDF2, AES-GCM) are platform code: they are replaced by small         *)
(* deterministic stand-ins that keep the lengths, the parameters and the   *)
(* tag check of the real ones.                                             *)
(***************************************************************************)
EXTENDS Integers, Sequences, FiniteSets, TLC

(***************************************************************************)
(* Program constants                                                       *)
(***************************************************************************)
SALT_LENGTH == 16
IV_LENGTH == 12
KEY_ITERATIONS == 100000
VAULT_VERSION == 1
\* AES-GCM appends a 128-bit tag when no tagLength is given
TAG_LENGTH == 16

(***************************************************************************)
(* Bounds of the model                                                     *)
(***************************************************************************)
\* number of distinct values crypto.getRandomValues may return
MaxRandom == 2
\* number of vault calls that may be in flight at once
MaxInFlight == 2
\* number of vault calls started in one behaviour
MaxCalls == 3
\* number of direct calls of crypto.ts functions in one behaviour
MaxProbes == 3
\* the values Date.now() takes
MaxClock == 2
\* number of UTF-16 code units of keys and values the browser lets
\* localStorage hold: room for every vault the model seals, and no more
StorageQuota == 700

(***************************************************************************)
(* Sequences helpers                                                       *)
(***************************************************************************)
slice(s, from, to) ==
  \* Uint8Array.prototype.slice(from, to): 0-based, end exclusive, clamped
  LET lo == IF from > Len(s) THEN Len(s) ELSE from
      hi == IF to > Len(s) THEN Len(s) ELSE to
  IN  IF hi <= lo THEN << >> ELSE [i \in 1..(hi - lo) |-> s[lo + i]]

\* the concatenation of ss[lo..hi], and of all of ss
RECURSIVE ConcatRange(_, _, _)
ConcatRange(ss, lo, hi) ==
  IF lo > hi THEN << >>
  ELSE IF lo = hi THEN ss[lo]
  ELSE LET mid == (lo + hi) \div 2
       IN  ConcatRange(ss, lo, mid) \o ConcatRange(ss, mid + 1, hi)
Concat(ss) == ConcatRange(ss, 1, Len(ss))

\* the sum of s[lo..hi], and of all of s
RECURSIVE SumRange(_, _, _)
SumRange(s, lo, hi) ==
  IF lo > hi THEN 0
  ELSE IF lo = hi THEN s[lo]
  ELSE LET mid == (lo + hi) \div 2
       IN  SumRange(s, lo, mid) + SumRange(s, mid + 1, hi)
SumSeq(s) == SumRange(s, 1, Len(s))

Pow2(n) == IF n = 0 THEN 1 ELSE IF n = 2 THEN 4 ELSE IF n = 4 THEN 16 ELSE 64

(***************************************************************************)
(* stringToBuffer / bufferToString: TextEncoder and TextDecoder (UTF-8)    *)
(***************************************************************************)
Utf8OfCodePoint(c) ==
  IF c < 128 THEN <<c>>
  ELSE IF c < 2048 THEN <<192 + (c \div 64), 128 + (c % 64)>>
  ELSE <<224 + (c \div 4096), 128 + ((c \div 64) % 64), 128 + (c % 64)>>

stringToBuffer(str) == Concat([i \in 1..Len(str) |-> Utf8OfCodePoint(str[i])])

IsCont(b) == b >= 128 /\ b < 192

\* the length of the well-formed UTF-8 sequence that starts at b[i], 0 if none
Utf8SeqLen(b, i) ==
  LET b0 == b[i] IN
    IF b0 < 128 THEN 1
    ELSE IF /\ b0 >= 194 /\ b0 < 224 /\ i + 1 <= Len(b) /\ IsCont(b[i + 1]) THEN 2
    ELSE IF /\ b0 >= 224 /\ b0 < 240 /\ i + 2 <= Len(b)
            /\ IsCont(b[i + 1]) /\ IsCont(b[i + 2])
            /\ LET cp == (b0 - 224) * 4096 + (b[i + 1] - 128) * 64 + (b[i + 2] - 128)
               IN  cp >= 2048 /\ ~(cp >= 55296 /\ cp < 57344)
      THEN 3
    ELSE 0

\* b[i] is a continuation byte of the sequence that starts one or two bytes
\* before it (a lead byte is never part of another sequence)
Utf8Consumed(b, i) ==
  /\ IsCont(b[i])
  /\ \/ (i > 1 /\ Utf8SeqLen(b, i - 1) >= 2)
     \/ (i > 2 /\ Utf8SeqLen(b, i - 2) = 3)

\* the TextDecoder loop: one code point per well-formed sequence, U+FFFD for
\* every byte that starts none
Utf8Decode(b) ==
  Concat([i \in 1..Len(b) |->
    IF Utf8Consumed(b, i) THEN << >>
    ELSE IF Utf8SeqLen(b, i) = 1 THEN <<b[i]>>
    ELSE IF Utf8SeqLen(b, i) = 2 THEN <<(b[i] - 192) * 64 + (b[i + 1] - 128)>>
    ELSE IF Utf8SeqLen(b, i) = 3
      THEN <<(b[i] - 224) * 4096 + (b[i + 1] - 128) * 64 + (b[i + 2] - 128)>>
    ELSE <<65533>>])

\* new TextDecoder() has ignoreBOM = false: a leading U+FEFF is dropped
StripBom(s) == IF s # << >> /\ s[1] = 65279 THEN Tail(s) ELSE s

bufferToString(buffer) == StripBom(Utf8Decode(buffer))

(***************************************************************************)
(* uint8ArrayToBase64 / base64ToUint8Array: btoa and atob                  *)
(***************************************************************************)
B64Char(v) ==
  IF v < 26 THEN 65 + v
  ELSE IF v < 52 THEN 97 + (v - 26)
  ELSE IF v < 62 THEN 48 + (v - 52)
  ELSE IF v = 62 THEN 43 ELSE 47

IsB64Char(c) ==
  \/ (c >= 65 /\ c <= 90) \/ (c >= 97 /\ c <= 122) \/ (c >= 48 /\ c <= 57)
  \/ c = 43 \/ c = 47

B64Value(c) ==
  IF c >= 65 /\ c <= 90 THEN c - 65
  ELSE IF c >= 97 /\ c <= 122 THEN c - 71
  ELSE IF c >= 48 /\ c <= 57 THEN c + 4
  ELSE IF c = 43 THEN 62 ELSE 63

uint8ArrayToBase64(bytes) ==
  LET n == Len(bytes)
      at(i) == IF i <= n THEN bytes[i] ELSE 0
      triple(g) == at(3 * g + 1) * 65536 + at(3 * g + 2) * 256 + at(3 * g + 3)
      sextet(g, j) ==
        IF j = 0 THEN triple(g) \div 262144
        ELSE IF j = 1 THEN (triple(g) \div 4096) % 64
        ELSE IF j = 2 THEN (triple(g) \div 64) % 64
        ELSE triple(g) % 64
  IN  [k \in 1..(4 * ((n + 2) \div 3)) |->
        LET g == (k - 1) \div 4
            j == (k - 1) % 4
        IN  IF (j = 2 /\ 3 * g + 2 > n) \/ (j = 3 /\ 3 * g + 3 > n)
            THEN 61 ELSE B64Char(sextet(g, j))]

IsAsciiWhitespace(c) == c \in {9, 10, 12, 13, 32}

\* forgiving-base64 decode, step 2: one or two "=" that end a text whose
\* length is a multiple of 4 are removed
StripPadding(noWs) ==
  LET n0 == Len(noWs)
      pad == IF n0 > 0 /\ n0 % 4 = 0 /\ noWs[n0] = 61
             THEN (IF noWs[n0 - 1] = 61 THEN 2 ELSE 1) ELSE 0
  IN  SubSeq(noWs, 1, n0 - pad)

\* forgiving-base64 decode, steps 3-10: [ok |-> FALSE] stands for the
\* InvalidCharacterError of atob
DecodeSextets(data) ==
  LET m == Len(data)
  IN  IF m % 4 = 1 \/ \E i \in 1..m : ~IsB64Char(data[i])
      THEN [ok |-> FALSE, binary |-> << >>]
      ELSE [ok |-> TRUE,
            binary |-> [i \in 1..((m * 6) \div 8) |->
              LET q == ((8 * (i - 1)) \div 6) + 1
                  r == (8 * (i - 1)) % 6
              IN  ((B64Value(data[q]) * 64 + B64Value(data[q + 1]))
                     \div Pow2(4 - r)) % 256]]

atob(base64) ==
  DecodeSextets(StripPadding(SelectSeq(base64, LAMBDA c : ~IsAsciiWhitespace(c))))

\* lines 28-33: one byte per char code of the binary string
BinaryToBytes(a) ==
  [ok |-> a.ok, bytes |-> [i \in 1..Len(a.binary) |-> a.binary[i]]]

base64ToUint8Array(base64) == BinaryToBytes(atob(base64))

(***************************************************************************)
(* Web Crypto stand-ins                                                    *)
(***************************************************************************)
\* crypto.getRandomValues(new Uint8Array(n)): one of MaxRandom buffers
Random(n, r) == [i \in 1..n |-> (17 * r + i) % 256]
RandomValues(n) == {Random(n, r) : r \in 1..MaxRandom}

\* PBKDF2-HMAC-SHA256(password, salt, iterations) -> length bits.  Stands for
\* crypto.subtle.deriveBits / deriveKey: deterministic, one output per
\* (password, salt, iterations), different for different passwords of at
\* most 16 bytes.
Pbkdf2(passwordBuffer, salt, iterations, length) ==
  LET pwAt(i) == IF i <= Len(passwordBuffer) THEN passwordBuffer[i] ELSE 0
      saltAt(i) == IF salt = << >> THEN 0 ELSE salt[((i - 1) % Len(salt)) + 1]
  IN  [i \in 1..(length \div 8) |-> (pwAt(i) + saltAt(i) + iterations) % 256]

\* the AES-GCM tag over (key, iv, ciphertext)
GcmTag(key, iv, ct) ==
  LET ivAt(j) == IF iv = << >> THEN 0 ELSE iv[((j - 1) % Len(iv)) + 1]
  IN  [j \in 1..TAG_LENGTH |->
        (key[j] + 3 * key[j + 16] + ivAt(j) + SumSeq(ct) + Len(ct)) % 256]

GcmStream(key, iv, i) ==
  (key[((i - 1) % Len(key)) + 1]
     + (IF iv = << >> THEN 0 ELSE iv[((i - 1) % Len(iv)) + 1])) % 256

\* crypto.subtle.encrypt({name: 'AES-GCM', iv}, key, data): ciphertext || tag
AesGcmEncrypt(key, iv, data) ==
  LET ct == [i \in 1..Len(data) |-> (data[i] + GcmStream(key, iv, i)) % 256]
  IN  ct \o GcmTag(key, iv, ct)

\* crypto.subtle.decrypt: rejects (ok = FALSE) unless the tag authenticates
AesGcmDecrypt(key, iv, data) ==
  IF Len(data) < TAG_LENGTH THEN [ok |-> FALSE, data |-> << >>]
  ELSE LET n == Len(data) - TAG_LENGTH
           ct == SubSeq(data, 1, n)
           tag == SubSeq(data, n + 1, Len(data))
       IN  IF tag # GcmTag(key, iv, ct) THEN [ok |-> FALSE, data |-> << >>]
           ELSE [ok |-> TRUE,
                 data |-> [i \in 1..n |->
                            (ct[i] + 256 - GcmStream(key, iv, i)) % 256]]

(***************************************************************************)
(* crypto.ts                                                               *)
(***************************************************************************)
\* the raw 256-bit AES key behind the CryptoKey that deriveKey returns
deriveKey(password, salt) ==
  Pbkdf2(stringToBuffer(password), salt, KEY_ITERATIONS, 256)

\* a faulty encrypt: the nonce is new Uint8Array(IV_LENGTH) as allocated, the
\* call of crypto.getRandomValues around it is missing
encrypt_ZeroIv(plaintext, masterPassword, salt, iv) ==
  LET key == deriveKey(masterPassword, salt)
      zeros == [i \in 1..IV_LENGTH |-> 0]
      encryptedData == AesGcmEncrypt(key, zeros, stringToBuffer(plaintext))
      combined == salt \o zeros \o encryptedData
  IN  uint8ArrayToBase64(combined)

\* encrypt(plaintext, masterPassword) with the two random draws made explicit
encrypt(plaintext, masterPassword, salt, iv) ==
  LET key == deriveKey(masterPassword, salt)
      encryptedData == AesGcmEncrypt(key, iv, stringToBuffer(plaintext))
      combined == salt \o iv \o encryptedData
  IN  uint8ArrayToBase64(combined)

\* a faulty decrypt: a catch around crypto.subtle.decrypt swallows the
\* rejection and decrypt resolves to whatever the buffer holds
decrypt_decrypted_Swallowed(decryptedData) ==
  [ok |-> TRUE, plaintext |-> bufferToString(decryptedData.data)]

\* decrypt, lines 93-99: ok = FALSE when the promise rejects
decrypt_decrypted(decryptedData) ==
  IF ~decryptedData.ok THEN [ok |-> FALSE, plaintext |-> << >>]
  ELSE [ok |-> TRUE, plaintext |-> bufferToString(decryptedData.data)]

\* a faulty decrypt: slice(SALT_LENGTH, IV_LENGTH) takes the length of the iv
\* for the index it ends at
decrypt_decoded_IvSliceEnd(decoded, masterPassword) ==
  IF ~decoded.ok THEN [ok |-> FALSE, plaintext |-> << >>]
  ELSE LET combined == decoded.bytes
           salt == slice(combined, 0, SALT_LENGTH)
           iv == slice(combined, SALT_LENGTH, IV_LENGTH)
           encryptedData == slice(combined, SALT_LENGTH + IV_LENGTH, Len(combined))
           key == deriveKey(masterPassword, salt)
       IN  decrypt_decrypted(AesGcmDecrypt(key, iv, encryptedData))

\* decrypt, lines 85-96
decrypt_decoded(decoded, masterPassword) ==
  IF ~decoded.ok THEN [ok |-> FALSE, plaintext |-> << >>]
  ELSE LET combined == decoded.bytes
           salt == slice(combined, 0, SALT_LENGTH)
           iv == slice(combined, SALT_LENGTH, SALT_LENGTH + IV_LENGTH)
           encryptedData == slice(combined, SALT_LENGTH + IV_LENGTH, Len(combined))
           key == deriveKey(masterPassword, salt)
       IN  decrypt_decrypted(AesGcmDecrypt(key, iv, encryptedData))

\* decrypt(ciphertext, masterPassword)
decrypt(ciphertext, masterPassword) ==
  decrypt_decoded(base64ToUint8Array(ciphertext), masterPassword)

\* the 256 bits hashPassword and verifyPassword derive
deriveBits(password, salt) ==
  Pbkdf2(stringToBuffer(password), salt, KEY_ITERATIONS, 256)

\* hashPassword(password) with its random salt made explicit
hashPassword(password, salt) ==
  LET derivedBits == deriveBits(password, salt)
      combined == salt \o derivedBits
  IN  uint8ArrayToBase64(combined)

\* a faulty comparison loop: "return true" sits inside the loop body, so
\* only the first byte decides
CompareBits_FirstByteOnly(storedBits, newBits, i) ==
  IF i > Len(storedBits) THEN [result |-> TRUE, threw |-> FALSE, steps |-> i - 1]
  ELSE [result |-> storedBits[i] = newBits[i], threw |-> FALSE, steps |-> i]

\* the comparison loop of verifyPassword (lines 165-168) from index i
\* (1-based): what verifyPassword returns from it; steps counts the byte
\* comparisons made before it returns
RECURSIVE CompareBits(_, _, _)
CompareBits(storedBits, newBits, i) ==
  IF i > Len(storedBits) THEN [result |-> TRUE, threw |-> FALSE, steps |-> i - 1]
  ELSE IF storedBits[i] # newBits[i] THEN [result |-> FALSE, threw |-> FALSE, steps |-> i]
  ELSE CompareBits(storedBits, newBits, i + 1)

\* a faulty verifyPassword: the length check of line 163 is missing
verifyPassword_decoded_NoLengthCheck(password, decoded) ==
  IF ~decoded.ok THEN [result |-> FALSE, threw |-> TRUE, steps |-> 0]
  ELSE LET combined == decoded.bytes
           salt == slice(combined, 0, SALT_LENGTH)
           newBits == deriveBits(password, salt)
           storedBits == slice(combined, SALT_LENGTH, Len(combined))
       IN  CompareBits(storedBits, newBits, 1)

\* verifyPassword, lines 137-168, once base64ToUint8Array has returned or
\* thrown
verifyPassword_decoded(password, decoded) ==
  IF ~decoded.ok THEN [result |-> FALSE, threw |-> TRUE, steps |-> 0]
  ELSE LET combined == decoded.bytes
           salt == slice(combined, 0, SALT_LENGTH)
           newBits == deriveBits(password, salt)
           storedBits == slice(combined, SALT_LENGTH, Len(combined))
       IN  IF Len(storedBits) # Len(newBits)
           THEN [result |-> FALSE, threw |-> FALSE, steps |-> 0]
           ELSE CompareBits(storedBits, newBits, 1)

\* the try block of verifyPassword (lines 135-169): what it returns, whether
\* it threw instead (atob on a string that is no base64), and the number of
\* byte comparisons it made
verifyPassword_try(password, storedHash) ==
  verifyPassword_decoded(password, base64ToUint8Array(storedHash))

\* the catch of verifyPassword (lines 170-172) turns whatever the try block
\* threw into false
verifyPassword_catch(try) ==
  IF try.threw THEN [result |-> FALSE, threw |-> FALSE, steps |-> try.steps]
  ELSE try

\* one run of verifyPassword
verifyPasswordRun(password, storedHash) ==
  verifyPassword_catch(verifyPassword_try(password, storedHash))

verifyPassword(password, storedHash) ==
  verifyPasswordRun(password, storedHash).result

(***************************************************************************)
(* JavaScript values and JSON                                              *)
(*                                                                         *)
(* A value is a record [t, s, n, a, k]: t its type, s the characters of a  *)
(* string, n a number (or 0 / 1 for a boolean), a the elements of an array *)
(* or the member values of an object, k the member names of an object.     *)
(***************************************************************************)
JUndefined == [t |-> "undefined", s |-> << >>, n |-> 0, a |-> << >>, k |-> << >>]
JNull == [t |-> "null", s |-> << >>, n |-> 0, a |-> << >>, k |-> << >>]
JBool(b) == [t |-> "bool", s |-> << >>, n |-> IF b THEN 1 ELSE 0, a |-> << >>, k |-> << >>]
JNum(x) == [t |-> "num", s |-> << >>, n |-> x, a |-> << >>, k |-> << >>]
JStr(str) == [t |-> "str", s |-> str, n |-> 0, a |-> << >>, k |-> << >>]
JArr(elems) == [t |-> "arr", s |-> << >>, n |-> 0, a |-> elems, k |-> << >>]
JObj(keys, vals) == [t |-> "obj", s |-> << >>, n |-> 0, a |-> vals, k |-> keys]

\* !v
Falsy(v) ==
  \/ v.t \in {"undefined", "null"}
  \/ (v.t = "bool" /\ v.n = 0)
  \/ (v.t = "num" /\ v.n = 0)
  \/ (v.t = "str" /\ v.s = << >>)

\* v.key: threw stands for the TypeError of reading a property of null or
\* undefined; a missing member (and any member of a primitive) is undefined
GetProp(v, key) ==
  IF v.t \in {"undefined", "null"} THEN [threw |-> TRUE, v |-> JUndefined]
  ELSE IF v.t = "obj" /\ \E i \in 1..Len(v.k) : v.k[i] = key
    THEN [threw |-> FALSE,
          v |-> v.a[CHOOSE i \in 1..Len(v.k) :
                      /\ v.k[i] = key
                      /\ \A j \in (i + 1)..Len(v.k) : v.k[j] # key]]
  ELSE [threw |-> FALSE, v |-> JUndefined]

RECURSIVE Digits(_)
Digits(x) == IF x < 10 THEN <<48 + x>> ELSE Digits(x \div 10) \o <<48 + (x % 10)>>

\* the characters of a quoted JSON string
QuoteChar(c) ==
  IF c = 34 \/ c = 92 THEN <<92, c>>
  ELSE IF c = 8 THEN <<92, 98>>
  ELSE IF c = 9 THEN <<92, 116>>
  ELSE IF c = 10 THEN <<92, 110>>
  ELSE IF c = 12 THEN <<92, 102>>
  ELSE IF c = 13 THEN <<92, 114>>
  ELSE <<c>>

Quote(str) == <<34>> \o Concat([i \in 1..Len(str) |-> QuoteChar(str[i])]) \o <<34>>

\* JSON.stringify(v) for a value that is not undefined: an undefined array
\* element is written null, an undefined member is left out
RECURSIVE JSONstringify(_), StringifyElems(_, _), StringifyMembers(_, _, _)
JSONstringify(v) ==
  IF v.t = "null" \/ v.t = "undefined" THEN <<110, 117, 108, 108>>
  ELSE IF v.t = "bool" THEN (IF v.n = 1 THEN <<116, 114, 117, 101>> ELSE <<102, 97, 108, 115, 101>>)
  ELSE IF v.t = "num" THEN (IF v.n < 0 THEN <<45>> \o Digits(0 - v.n) ELSE Digits(v.n))
  ELSE IF v.t = "str" THEN Quote(v.s)
  ELSE IF v.t = "arr" THEN <<91>> \o StringifyElems(v.a, 1) \o <<93>>
  ELSE <<123>> \o StringifyMembers(v, 1, TRUE) \o <<125>>

StringifyElems(elems, i) ==
  IF i > Len(elems) THEN << >>
  ELSE (IF i > 1 THEN <<44>> ELSE << >>)
         \o JSONstringify(elems[i]) \o StringifyElems(elems, i + 1)

StringifyMembers(obj, i, first) ==
  IF i > Len(obj.k) THEN << >>
  ELSE IF obj.a[i].t = "undefined" THEN StringifyMembers(obj, i + 1, first)
  ELSE (IF first THEN << >> ELSE <<44>>)
         \o Quote(obj.k[i]) \o <<58>> \o JSONstringify(obj.a[i])
         \o StringifyMembers(obj, i + 1, FALSE)

\* JSON.parse: a recursive-descent reader.  Every Parse* operator returns
\* [ok, v, i]: whether it read a value, the value, and the index after it.
\* String escapes other than \" \\ \/ \b \f \n \r \t, and numbers other than
\* integers, are outside the texts of this model and read as syntax errors.
ParseFail == [ok |-> FALSE, v |-> JUndefined, i |-> 0]

RECURSIVE SkipWs(_, _)
SkipWs(txt, i) ==
  IF i <= Len(txt) /\ txt[i] \in {9, 10, 13, 32} THEN SkipWs(txt, i + 1) ELSE i

StartsWith(txt, i, word) ==
  /\ i + Len(word) - 1 <= Len(txt)
  /\ \A j \in 1..Len(word) : txt[i + j - 1] = word[j]

Unescape(c) ==
  IF c = 98 THEN 8 ELSE IF c = 116 THEN 9 ELSE IF c = 110 THEN 10
  ELSE IF c = 102 THEN 12 ELSE IF c = 114 THEN 13 ELSE c

\* the number of backslashes that end just before txt[j], counted from from
BackslashRun(txt, from, j) ==
  CHOOSE r \in 0..(j - from) :
    /\ \A q \in (j - r)..(j - 1) : txt[q] = 92
    /\ (j - r = from \/ txt[j - r - 1] # 92)

\* reads the characters of a string from index i (after the opening quote):
\* up to the first quote that no backslash escapes
ParseChars(txt, i) ==
  LET closes(j) == txt[j] = 34 /\ BackslashRun(txt, i, j) % 2 = 0
  IN  IF ~\E j \in i..Len(txt) : closes(j) THEN ParseFail
      ELSE LET end == CHOOSE j \in i..Len(txt) :
                        closes(j) /\ \A q \in i..(j - 1) : ~closes(q)
               escapes(q) == txt[q] = 92 /\ BackslashRun(txt, i, q) % 2 = 0
               escaped(q) == q > i /\ escapes(q - 1)
           IN  IF \E q \in i..(end - 1) :
                    \/ txt[q] < 32
                    \/ (escaped(q) /\ txt[q] \notin {34, 92, 47, 98, 102, 110, 114, 116})
               THEN ParseFail
               ELSE [ok |-> TRUE,
                     v |-> JStr(Concat([q \in 1..(end - i) |->
                             IF escapes(i + q - 1) THEN << >>
                             ELSE IF escaped(i + q - 1) THEN <<Unescape(txt[i + q - 1])>>
                             ELSE <<txt[i + q - 1]>>])),
                     i |-> end + 1]

RECURSIVE ParseDigits(_, _, _)
ParseDigits(txt, i, acc) ==
  IF i <= Len(txt) /\ txt[i] >= 48 /\ txt[i] <= 57
  THEN ParseDigits(txt, i + 1, acc * 10 + (txt[i] - 48))
  ELSE [ok |-> TRUE, v |-> JNum(acc), i |-> i]

ParseNumber(txt, i) ==
  LET neg == txt[i] = 45
      d == IF neg THEN i + 1 ELSE i
  IN  IF d > Len(txt) \/ txt[d] < 48 \/ txt[d] > 57 THEN ParseFail
      ELSE LET r == IF txt[d] = 48 THEN [ok |-> TRUE, v |-> JNum(0), i |-> d + 1]
                    ELSE ParseDigits(txt, d, 0)
           IN  IF neg THEN [r EXCEPT !.v = JNum(0 - r.v.n)] ELSE r

RECURSIVE ParseValue(_, _), ParseElements(_, _, _), ParseMembers(_, _, _, _)
ParseValue(txt, i) ==
  IF i > Len(txt) THEN ParseFail
  ELSE IF txt[i] = 34 THEN ParseChars(txt, i + 1)
  ELSE IF txt[i] = 45 \/ (txt[i] >= 48 /\ txt[i] <= 57) THEN ParseNumber(txt, i)
  ELSE IF StartsWith(txt, i, <<110, 117, 108, 108>>) THEN [ok |-> TRUE, v |-> JNull, i |-> i + 4]
  ELSE IF StartsWith(txt, i, <<116, 114, 117, 101>>) THEN [ok |-> TRUE, v |-> JBool(TRUE), i |-> i + 4]
  ELSE IF StartsWith(txt, i, <<102, 97, 108, 115, 101>>) THEN [ok |-> TRUE, v |-> JBool(FALSE), i |-> i + 5]
  ELSE IF txt[i] = 91 THEN
    (LET j == SkipWs(txt, i + 1)
     IN  IF j <= Len(txt) /\ txt[j] = 93
         THEN [ok |-> TRUE, v |-> JArr(<< >>), i |-> j + 1]
         ELSE ParseElements(txt, j, << >>))
  ELSE IF txt[i] = 123 THEN
    (LET j == SkipWs(txt, i + 1)
     IN  IF j <= Len(txt) /\ txt[j] = 125
         THEN [ok |-> TRUE, v |-> JObj(<< >>, << >>), i |-> j + 1]
         ELSE ParseMembers(txt, j, << >>, << >>))
  ELSE ParseFail

\* after the element e of an array: ']', or ',' and the elements that follow
ElementsAfter(txt, e, acc) ==
  IF ~e.ok THEN ParseFail
  ELSE LET j == SkipWs(txt, e.i)
       IN  IF j > Len(txt) THEN ParseFail
           ELSE IF txt[j] = 93
             THEN [ok |-> TRUE, v |-> JArr(Append(acc, e.v)), i |-> j + 1]
           ELSE IF txt[j] = 44
             THEN ParseElements(txt, SkipWs(txt, j + 1), Append(acc, e.v))
           ELSE ParseFail

\* element (',' element)* ']' from index i
ParseElements(txt, i, acc) == ElementsAfter(txt, ParseValue(txt, i), acc)

\* after the value e of the member named key: '}', or ',' and the members
\* that follow
MembersAfter(txt, key, e, keys, vals) ==
  IF ~e.ok THEN ParseFail
  ELSE LET j == SkipWs(txt, e.i)
       IN  IF j > Len(txt) THEN ParseFail
           ELSE IF txt[j] = 125
             THEN [ok |-> TRUE,
                   v |-> JObj(Append(keys, key.v.s), Append(vals, e.v)),
                   i |-> j + 1]
           ELSE IF txt[j] = 44
             THEN ParseMembers(txt, SkipWs(txt, j + 1),
                               Append(keys, key.v.s), Append(vals, e.v))
           ELSE ParseFail

\* after the name key of a member: ':' and its value
MemberValue(txt, key, keys, vals) ==
  IF ~key.ok THEN ParseFail
  ELSE LET c == SkipWs(txt, key.i)
       IN  IF c > Len(txt) \/ txt[c] # 58 THEN ParseFail
           ELSE MembersAfter(txt, key, ParseValue(txt, SkipWs(txt, c + 1)),
                             keys, vals)

\* string ':' value (',' string ':' value)* '}' from index i
ParseMembers(txt, i, keys, vals) ==
  IF i > Len(txt) \/ txt[i] # 34 THEN ParseFail
  ELSE MemberValue(txt, ParseChars(txt, i + 1), keys, vals)

\* the text holds the value r and nothing after it but whitespace
WholeText(text, r) ==
  IF r.ok /\ SkipWs(text, r.i) > Len(text)
  THEN [ok |-> TRUE, v |-> r.v]
  ELSE [ok |-> FALSE, v |-> JUndefined]

\* JSON.parse(text): ok = FALSE stands for the SyntaxError it throws
JSONparse(text) == WholeText(text, ParseValue(text, SkipWs(text, 1)))

(***************************************************************************)
(* lib/vault (src/src/pages/Index.tsx, lines 45-173): data                 *)
(***************************************************************************)
\* "encrypted_vault" and "master_hash", the two localStorage keys
VAULT_STORAGE_KEY == "encrypted_vault"
MASTER_HASH_KEY == "master_hash"

\* property names
K_credentials == <<99, 114, 101, 100, 101, 110, 116, 105, 97, 108, 115>>
K_version == <<118, 101, 114, 115, 105, 111, 110>>
K_encrypted == <<101, 110, 99, 114, 121, 112, 116, 101, 100>>
K_hash == <<104, 97, 115, 104>>
K_id == <<105, 100>>
K_favorite == <<102, 97, 118, 111, 114, 105, 116, 101>>
K_createdAt == <<99, 114, 101, 97, 116, 101, 100, 65, 116>>

\* the members of interface Credential, in the order CredentialForm writes them
CredentialKeys ==
  << <<105, 100>>,
     <<110, 97, 109, 101>>,
     <<117, 115, 101, 114, 110, 97, 109, 101>>,
     <<112, 97, 115, 115, 119, 111, 114, 100>>,
     <<117, 114, 108>>,
     <<110, 111, 116, 101, 115>>,
     <<99, 97, 116, 101, 103, 111, 114, 121>>,
     <<99, 114, 101, 97, 116, 101, 100, 65, 116>>,
     <<117, 112, 100, 97, 116, 101, 100, 65, 116>>,
     <<102, 97, 118, 111, 114, 105, 116, 101>> >>

Credential(id, name, username, password, url, notes, category, createdAt, updatedAt, favorite) ==
  JObj(CredentialKeys,
       <<JStr(id), JStr(name), JStr(username), JStr(password), url, notes,
         JStr(category), JNum(createdAt), JNum(updatedAt), JBool(favorite)>>)

\* interface VaultData
VaultData(credentials, version) ==
  JObj(<<K_credentials, K_version>>, <<credentials, JNum(version)>>)

(***************************************************************************)
(* The inputs of the model                                                 *)
(***************************************************************************)
\* master passwords: "pässw0rd", "pässw0rD" and "wrong"
PwA == <<112, 228, 115, 115, 119, 48, 114, 100>>
PwB == <<112, 228, 115, 115, 119, 48, 114, 68>>
PwC == <<119, 114, 111, 110, 103>>
\* the passwords vaults are created and saved under, and those tried
Passwords == {PwA, PwB}
Candidates == Passwords \cup {PwC}

\* Example / user@example.com / p@ssW0rd! / other, without url and notes
Cred1 ==
  Credential(<<105, 100, 45, 49>>, <<69, 120, 97, 109, 112, 108, 101>>,
             <<117, 115, 101, 114, 64, 101, 120, 97, 109, 112, 108, 101, 46, 99, 111, 109>>, <<112, 64, 115, 115, 87, 48, 114, 100, 33>>,
             JUndefined, JUndefined, <<111, 116, 104, 101, 114>>, 1, 2, FALSE)
\* a favourite with a url and with notes that need escaping: say "hi"\
Cred2 ==
  Credential(<<105, 100, 45, 50>>, <<66, 97, 110, 107>>, <<109, 101>>, <<115, 51, 99, 114, 233, 116>>,
             JStr(<<104, 116, 116, 112, 115, 58, 47, 47, 98, 46, 101, 120, 97, 109, 112, 108, 101>>), JStr(<<115, 97, 121, 32, 34, 104, 105, 34, 92>>),
             <<102, 105, 110, 97, 110, 99, 101>>, 3, 40, TRUE)

Collections == {JArr(<< >>), JArr(<<Cred2, Cred1>>)}

\* { ...c, favorite: !c.favorite } (VaultDashboard.handleToggleFavorite)
toggleFavorite(c) ==
  [c EXCEPT !.a = [i \in 1..Len(c.a) |->
                     IF c.k[i] = K_favorite THEN JBool(Falsy(c.a[i])) ELSE c.a[i]]]
\* credential?.key, and a || b
OptionalProp(credential, key) ==
  IF credential.t \in {"undefined", "null"} THEN JUndefined
  ELSE GetProp(credential, key).v
OrElse(a, b) == IF Falsy(a) THEN b ELSE a

\* a faulty CredentialForm.handleSubmit: createdAt is taken anew on an edit
newCredential_Restamped(credential, fields, id, now) ==
  JObj(CredentialKeys,
       <<OrElse(OptionalProp(credential, K_id), JStr(id)),
         JStr(fields.name), JStr(fields.username), JStr(fields.password),
         OrElse(JStr(fields.url), JUndefined), OrElse(JStr(fields.notes), JUndefined),
         JStr(fields.category),
         JNum(now),
         JNum(now),
         OrElse(OptionalProp(credential, K_favorite), JBool(FALSE))>>)

\* CredentialForm.handleSubmit, lines 65-76: credential is the one being
\* edited (null for a new one), fields what the inputs hold, id what
\* generateId() returns and now what Date.now() returns
newCredential(credential, fields, id, now) ==
  JObj(CredentialKeys,
       <<OrElse(OptionalProp(credential, K_id), JStr(id)),
         JStr(fields.name), JStr(fields.username), JStr(fields.password),
         OrElse(JStr(fields.url), JUndefined), OrElse(JStr(fields.notes), JUndefined),
         JStr(fields.category),
         OrElse(OptionalProp(credential, K_createdAt), JNum(now)),
         JNum(now),
         OrElse(OptionalProp(credential, K_favorite), JBool(FALSE))>>)

\* what is typed into CredentialForm: Example / user@example.com /
\* p@ssW0rd! / other, url and notes left empty
FormFields ==
  {[name |-> <<69, 120, 97, 109, 112, 108, 101>>,
    username |-> <<117, 115, 101, 114, 64, 101, 120, 97, 109, 112, 108, 101, 46, 99, 111, 109>>,
    password |-> <<112, 64, 115, 115, 87, 48, 114, 100, 33>>,
    url |-> << >>, notes |-> << >>,
    category |-> <<111, 116, 104, 101, 114>>]}
\* what generateId() returns ("id-1", "id-2"), and what Date.now() returns
AppIds == {<<105, 100, 45, 49>>, <<105, 100, 45, 50>>}
Clock == 1..MaxClock
\* the credentials the dashboard comes to hold: added, then edited, then
\* toggled
AddedCredentials ==
  {newCredential(JNull, f, id, now) : f \in FormFields, id \in AppIds, now \in Clock}
EditedCredentials ==
  AddedCredentials
    \cup UNION {{newCredential(c, f, GetProp(c, K_id).v.s, now) :
                   f \in FormFields, now \in GetProp(c, K_createdAt).v.n..MaxClock} :
                c \in AddedCredentials}
MemoryCredentials == EditedCredentials \cup {toggleFavorite(c) : c \in EditedCredentials}
\* ... and what unlockVault gives back for them: JSON.stringify leaves out
\* the properties that are undefined
AppCredentials ==
  MemoryCredentials \cup {JSONparse(JSONstringify(c)).v : c \in MemoryCredentials}
\* ... and the collections it comes to hold, one credential for an id
AppCollections ==
  {JArr(<< >>)} \cup {JArr(<<c>>) : c \in AppCredentials}
    \cup {JArr(<<p[1], p[2]>>) :
            p \in {q \in AppCredentials \X AppCredentials :
                      GetProp(q[1], K_id).v # GetProp(q[2], K_id).v}}

\* what a backup file handed to importVault may hold: records in the format
\* of exportVault whose container was sealed under PwA from a plaintext of
\* another version, of another shape or of no JSON at all, records whose
\* container or artifact is damaged, and files that are no record
Salt0 == Random(SALT_LENGTH, 1)
Iv0 == Random(IV_LENGTH, 1)
ExportText(encrypted, hash) ==
  JSONstringify(JObj(<<K_encrypted, K_hash, K_version>>,
                     <<encrypted, hash, JNum(VAULT_VERSION)>>))
TextV2 == JSONstringify(VaultData(JArr(<<Cred1>>), 2))
TextNoCredentials == JSONstringify(JObj(<<K_version>>, <<JNum(VAULT_VERSION)>>))
TextNull == JSONstringify(JNull)
TextNotJson == <<111, 111, 112, 115>>
TextGood == JSONstringify(VaultData(JArr(<<Cred1>>), VAULT_VERSION))
ForeignPlaintexts == {TextV2, TextNoCredentials, TextNull, TextNotJson}
Tampered(text) == [text EXCEPT ![Len(text) - 4] = IF @ = 65 THEN 66 ELSE 65]
NotBase64 == <<33, 33, 33, 33>>
GoodContainer == encrypt(TextGood, PwA, Salt0, Iv0)
GoodHash == hashPassword(PwA, Salt0)
DamagedContainers ==
  {NotBase64, Tampered(GoodContainer), uint8ArrayToBase64(Salt0 \o Iv0)}
\* no base64, a salt without bits, and an artifact cut one byte short
DamagedHashes ==
  {NotBase64, uint8ArrayToBase64(Salt0),
   uint8ArrayToBase64(SubSeq(Salt0 \o deriveBits(PwA, Salt0), 1, SALT_LENGTH + 31))}
\* a container with the byte at offset (from 0) changed by delta
Tamper(combined, offset, delta) ==
  [combined EXCEPT ![offset + 1] = (@ + delta) % 256]
TamperByte(container, offset, delta) ==
  uint8ArrayToBase64(Tamper(base64ToUint8Array(container).bytes, offset, delta))
\* the ways a byte is changed: its lowest bit, its highest bit, and all bits
Deltas == {1, 128, 255}
\* GoodContainer with its first ciphertext byte changed, and with the last
\* byte of its tag changed
TamperedContainers ==
  {TamperByte(GoodContainer, SALT_LENGTH + IV_LENGTH, 1),
   TamperByte(GoodContainer,
              Len(base64ToUint8Array(GoodContainer).bytes) - 1, 255)}
\* a record whose hash member alone is as long as the storage is large
OversizeHash == [i \in 1..StorageQuota |-> 65]
OversizeFile == ExportText(JStr(GoodContainer), JStr(OversizeHash))
ImportedContainers ==
  {encrypt(x, PwA, Salt0, Iv0) : x \in ForeignPlaintexts \cup {TextGood}}
    \cup DamagedContainers \cup TamperedContainers \cup {<< >>}
ImportFiles ==
  {ExportText(JStr(c), JStr(GoodHash)) : c \in ImportedContainers}
    \cup {ExportText(JStr(GoodContainer), h) :
            h \in {JStr(x) : x \in DamagedHashes} \cup {JUndefined}}
    \cup {TextNull, TextNotJson, OversizeFile}

\* plaintexts handed to encrypt directly: a serialized vault, a text with
\* characters outside ASCII ("s3crét €"), and a text that starts with U+FEFF
TextAccents == <<115, 51, 99, 114, 233, 116, 32, 8364>>
TextBom == <<65279>> \o TextNotJson
ProbeTexts == {TextGood, TextAccents, TextBom}

(***************************************************************************)
(* State                                                                   *)
(***************************************************************************)
VARIABLES
  localStorage,  \* the two slots: JNull when absent, else the stored string
  calls,         \* the vault calls in flight, by slot
  started,       \* number of vault calls started so far
  probes,        \* the direct calls of crypto.ts functions made so far
  index,         \* the state of the Index page (Index.tsx, lines 7-9)
  form,          \* the state of the MasterPassword form while it is mounted
  draws,         \* the buffers crypto.getRandomValues has returned, in order
  seals,         \* the encrypt calls of createVault and saveVault, in order
  backup         \* the file exportVault returned, and what importVault made of it

\* the variables of lib/vault and of the direct calls
lib == <<localStorage, calls, started, probes>>
\* the page that calls lib/vault
page == <<index, form>>
\* the record of the random draws and of what was sealed from them; it is
\* kept by SealSpec alone
drawn == <<draws, seals>>

vars == <<localStorage, calls, started, probes, index, form, draws, seals, backup>>

Slots == 1..MaxInFlight

\* a call: op its function, pc the await it is suspended at ("done" once its
\* promise has settled), the arguments, the locals that live across an
\* await, and the value it resolved to
Idle ==
  [op |-> "idle", pc |-> "idle", masterPassword |-> << >>, credentials |-> JUndefined,
   hash |-> JUndefined, encrypted |-> JUndefined, storedHash |-> JUndefined,
   encryptedVault |-> JUndefined, ret |-> JUndefined]

InFlight(c) == calls[c].op # "idle" /\ calls[c].pc # "done"

\* localStorage.getItem / setItem / removeItem
getItem(ls, key) == ls[key]
RECURSIVE JsString(_)
JsString(v) ==
  IF v.t = "str" THEN v.s
  ELSE IF v.t = "num" \/ v.t = "bool" \/ v.t = "null" THEN JSONstringify(v)
  ELSE IF v.t = "undefined" THEN <<117, 110, 100, 101, 102, 105, 110, 101, 100>>
  ELSE IF v.t = "obj" THEN <<91, 111, 98, 106, 101, 99, 116, 32, 79, 98, 106, 101, 99, 116, 93>>
  ELSE Concat([i \in 1..Len(v.a) |->
                 (IF i > 1 THEN <<44>> ELSE << >>)
                   \o (IF v.a[i].t \in {"null", "undefined"} THEN << >>
                       ELSE JsString(v.a[i]))])
setItem(ls, key, value) == [ls EXCEPT ![key] = JStr(JsString(value))]
removeItem(ls, key) == [ls EXCEPT ![key] = JNull]
\* the code units the storage holds, keys and values
ItemSize(ls, key) == IF ls[key].t = "null" THEN 0 ELSE Len(key) + Len(ls[key].s)
StorageUsed(ls) == ItemSize(ls, VAULT_STORAGE_KEY) + ItemSize(ls, MASTER_HASH_KEY)
\* setItem throws QuotaExceededError and stores nothing when the new value
\* does not fit
QuotaExceeded(ls, key, value) == StorageUsed(setItem(ls, key, value)) > StorageQuota

\* Index: const [isUnlocked, setIsUnlocked] = useState(false), [credentials,
\* setCredentials] = useState([]), [masterPassword, setMasterPassword] =
\* useState('')
IndexState(isUnlocked, credentials, masterPassword) ==
  [isUnlocked |-> isUnlocked, credentials |-> credentials,
   masterPassword |-> masterPassword]

\* MasterPassword: isNewVault, isLoading and error (CredentialForm.tsx, lines
\* 249-254); on an empty storage useState(!vaultExists()) is true
FormState(isNewVault, isLoading, error) ==
  [isNewVault |-> isNewVault, isLoading |-> isLoading, error |-> error]

\* the backup: text is what exportVault returned (JUndefined before it is
\* called), imported is what importVault returned for it (JUndefined before)
BackupState(text, imported) == [text |-> text, imported |-> imported]

Init ==
  /\ localStorage = [k \in {VAULT_STORAGE_KEY, MASTER_HASH_KEY} |-> JNull]
  /\ calls = [c \in Slots |-> Idle]
  /\ started = 0
  /\ probes = << >>
  /\ index = IndexState(FALSE, JArr(<< >>), << >>)
  /\ form = FormState(TRUE, FALSE, << >>)
  /\ draws = << >>
  /\ seals = << >>
  /\ backup = BackupState(JUndefined, JUndefined)

(***************************************************************************)
(* lib/vault: the pure parts of the operations, and tables of them over    *)
(* the values of the model (each table is evaluated once)                  *)
(***************************************************************************)
\* lines 96-101 and 131-136: JSON.stringify of the VaultData, then encrypt
sealVaultData(credentials, masterPassword, salt, iv) ==
  encrypt(JSONstringify(VaultData(credentials, VAULT_VERSION)), masterPassword, salt, iv)

\* unlockVault, line 124: return vaultData.credentials
unlockVault_read(vaultData) ==
  IF ~vaultData.ok THEN JNull
  ELSE LET credentials == GetProp(vaultData.v, K_credentials)
       IN  IF credentials.threw THEN JNull ELSE credentials.v

\* unlockVault, line 123: JSON.parse of what decrypt resolved to
unlockVault_parse(decrypted) ==
  IF ~decrypted.ok THEN JNull
  ELSE unlockVault_read(JSONparse(decrypted.plaintext))

\* what unlockVault's try block and its catch (lines 120-126) return for a
\* container
unlockVault_try(encryptedVault, masterPassword) ==
  unlockVault_parse(decrypt(encryptedVault, masterPassword))

\* importVault, line 165: the two members it requires of the parsed file
importVault_check(parsed) ==
  IF ~parsed.ok
  THEN [ok |-> FALSE, encrypted |-> JUndefined, hash |-> JUndefined]
  ELSE LET encrypted == GetProp(parsed.v, K_encrypted)
           hash == GetProp(parsed.v, K_hash)
       IN  IF encrypted.threw \/ hash.threw \/ Falsy(encrypted.v) \/ Falsy(hash.v)
           THEN [ok |-> FALSE, encrypted |-> JUndefined, hash |-> JUndefined]
           ELSE [ok |-> TRUE, encrypted |-> encrypted.v, hash |-> hash.v]

\* importVault, lines 164-165: what it reads from the file; ok = FALSE when
\* it returns false
importVault_read(data) == importVault_check(JSONparse(data))

\* the values a table holds
Range(f) == {f[x] : x \in DOMAIN f}

SealTable ==
  [credentials \in Collections, masterPassword \in Candidates,
   salt \in RandomValues(SALT_LENGTH), iv \in RandomValues(IV_LENGTH) |->
     sealVaultData(credentials, masterPassword, salt, iv)]
\* the collections of the dashboard, sealed under PwA with the first random
\* values
AppPlaintexts == {JSONstringify(VaultData(C, VAULT_VERSION)) : C \in AppCollections}
AppEncryptTable == [text \in AppPlaintexts |-> encrypt(text, PwA, Salt0, Iv0)]
AppSealTable ==
  [credentials \in AppCollections |->
     AppEncryptTable[JSONstringify(VaultData(credentials, VAULT_VERSION))]]
HashTable ==
  [password \in Candidates, salt \in RandomValues(SALT_LENGTH) |->
     hashPassword(password, salt)]
\* the files exportVault returns for the vaults created and saved under PwA
BackupFiles ==
  {ExportText(JStr(c), JStr(h)) :
     c \in {SealTable[k] : k \in Collections \X {PwA}
                                   \X RandomValues(SALT_LENGTH) \X RandomValues(IV_LENGTH)},
     h \in {HashTable[k] : k \in {PwA} \X RandomValues(SALT_LENGTH)}}
ImportTable == [data \in ImportFiles \cup BackupFiles |-> importVault_read(data)]
\* every string the two slots can come to hold
Containers ==
  Range(SealTable) \cup Range(AppSealTable) \cup {r.encrypted.s : r \in {q \in Range(ImportTable) : q.ok}}
Artifacts ==
  Range(HashTable) \cup DamagedHashes
    \cup {r.hash.s : r \in {q \in Range(ImportTable) : q.ok}}
VerifyTable ==
  [password \in Candidates, storedHash \in Artifacts |->
     verifyPasswordRun(password, storedHash)]
UnlockTable ==
  [encryptedVault \in Containers, masterPassword \in Candidates |->
     unlockVault_try(encryptedVault, masterPassword)]

Sealed(credentials, masterPassword, salt, iv) ==
  IF credentials \in Collections
  THEN SealTable[credentials, masterPassword, salt, iv]
  ELSE AppSealTable[credentials]
Hashed(password, salt) == HashTable[password, salt]
Verified(password, storedHash) == VerifyTable[password, storedHash]
Unlocked(encryptedVault, masterPassword) ==
  UnlockTable[encryptedVault, masterPassword]
ImportRead(data) == ImportTable[data]

(***************************************************************************)
(* lib/vault: operations.  An async function runs up to its next await in  *)
(* one step; the pc of a call names the line of the await it waits at.     *)
(***************************************************************************)
\* a new call takes the lowest free slot
FreeSlot(c) ==
  /\ probes = << >>
  /\ started < MaxCalls
  /\ calls[c].op = "idle"
  /\ \A d \in Slots : d < c => calls[d].op # "idle"

vaultExists(ls) == getItem(ls, MASTER_HASH_KEY) # JNull

\* createVault, line 93: hashPassword is called and awaited
createVault_call(c, masterPassword, salt) ==
  /\ FreeSlot(c)
  /\ calls' = [calls EXCEPT ![c] =
       [Idle EXCEPT !.op = "createVault", !.pc = "cv93",
                    !.masterPassword = masterPassword,
                    !.hash = JStr(Hashed(masterPassword, salt))]]
  /\ started' = started + 1
  /\ UNCHANGED <<localStorage, probes>>

\* createVault, lines 94-101 (also when called by unlockVault, line 116):
\* the artifact is stored, encrypt of the empty vault is called and awaited
createVault_hashed(c, salt, iv) ==
  /\ calls[c].pc = "cv93"
  /\ localStorage' = setItem(localStorage, MASTER_HASH_KEY, calls[c].hash)
  /\ LET credentials == JArr(<< >>)
     IN  calls' = [calls EXCEPT ![c].pc = "cv101",
                     ![c].encrypted =
                        JStr(Sealed(credentials, calls[c].masterPassword, salt, iv))]
  /\ UNCHANGED <<started, probes>>

\* createVault, line 102: the container is stored; createVault returns, and
\* unlockVault (line 117) returns [] when it was the caller
createVault_encrypted(c) ==
  /\ calls[c].pc = "cv101"
  /\ localStorage' = setItem(localStorage, VAULT_STORAGE_KEY, calls[c].encrypted)
  /\ calls' = [calls EXCEPT ![c].pc = "done",
                 ![c].ret = IF calls[c].op = "unlockVault"
                            THEN JArr(<< >>) ELSE JUndefined]
  /\ UNCHANGED <<started, probes>>

\* a faulty unlockVault: the container is read and decrypted before
\* verifyPassword is asked
unlockVault_call_DecryptFirst(c, masterPassword) ==
  /\ FreeSlot(c)
  /\ LET storedHash == getItem(localStorage, MASTER_HASH_KEY)
         encryptedVault == getItem(localStorage, VAULT_STORAGE_KEY)
         call == [Idle EXCEPT !.op = "unlockVault",
                              !.masterPassword = masterPassword,
                              !.storedHash = storedHash]
     IN  calls' = [calls EXCEPT ![c] =
           IF Falsy(storedHash) \/ Falsy(encryptedVault)
           THEN [call EXCEPT !.pc = "done", !.ret = JNull]
           ELSE [call EXCEPT !.pc = "uv121", !.encryptedVault = encryptedVault]]
  /\ started' = started + 1
  /\ UNCHANGED <<localStorage, probes>>

\* a faulty unlockVault: without an artifact it creates a vault
unlockVault_call_AutoCreate(c, masterPassword) ==
  /\ FreeSlot(c)
  /\ LET storedHash == getItem(localStorage, MASTER_HASH_KEY)
         call == [Idle EXCEPT !.op = "unlockVault",
                              !.masterPassword = masterPassword,
                              !.storedHash = storedHash]
     IN  calls' = [calls EXCEPT ![c] =
           IF Falsy(storedHash)
           THEN [call EXCEPT !.pc = "cv93",
                             !.hash = JStr(Hashed(masterPassword, Salt0))]
           ELSE [call EXCEPT !.pc = "uv110"]]
  /\ started' = started + 1
  /\ UNCHANGED <<localStorage, probes>>

\* unlockVault, lines 107-110
unlockVault_call(c, masterPassword) ==
  /\ FreeSlot(c)
  /\ LET storedHash == getItem(localStorage, MASTER_HASH_KEY)
         call == [Idle EXCEPT !.op = "unlockVault",
                              !.masterPassword = masterPassword,
                              !.storedHash = storedHash]
     IN  calls' = [calls EXCEPT ![c] =
           IF Falsy(storedHash)
           THEN [call EXCEPT !.pc = "done", !.ret = JNull]
           ELSE [call EXCEPT !.pc = "uv110"]]
  /\ started' = started + 1
  /\ UNCHANGED <<localStorage, probes>>

\* a faulty unlockVault: "if (!isValid) return null" (line 111) is missing
unlockVault_verified_NoCheck(c, salt) ==
  /\ calls[c].pc = "uv110"
  /\ LET encryptedVault == getItem(localStorage, VAULT_STORAGE_KEY)
     IN  calls' = [calls EXCEPT ![c] =
           IF Falsy(encryptedVault)
             THEN [@ EXCEPT !.pc = "cv93", !.encryptedVault = encryptedVault,
                            !.hash = JStr(Hashed(calls[c].masterPassword, salt))]
           ELSE [@ EXCEPT !.pc = "uv121", !.encryptedVault = encryptedVault]]
  /\ UNCHANGED <<localStorage, started, probes>>

\* a faulty unlockVault: a failed attempt removes the container
unlockVault_verified_Wipe(c, salt) ==
  /\ calls[c].pc = "uv110"
  /\ LET isValid == Verified(calls[c].masterPassword, calls[c].storedHash.s).result
         encryptedVault == getItem(localStorage, VAULT_STORAGE_KEY)
     IN  /\ calls' = [calls EXCEPT ![c] =
              IF ~isValid THEN [@ EXCEPT !.pc = "done", !.ret = JNull]
              ELSE IF Falsy(encryptedVault)
                THEN [@ EXCEPT !.pc = "cv93", !.encryptedVault = encryptedVault,
                               !.hash = JStr(Hashed(calls[c].masterPassword, salt))]
              ELSE [@ EXCEPT !.pc = "uv121", !.encryptedVault = encryptedVault]]
         /\ localStorage' = IF ~isValid THEN removeItem(localStorage, VAULT_STORAGE_KEY)
                            ELSE localStorage
  /\ UNCHANGED <<started, probes>>

\* unlockVault, lines 110-121: verifyPassword has settled
unlockVault_verified(c, salt) ==
  /\ calls[c].pc = "uv110"
  /\ LET isValid == Verified(calls[c].masterPassword, calls[c].storedHash.s).result
         encryptedVault == getItem(localStorage, VAULT_STORAGE_KEY)
     IN  calls' = [calls EXCEPT ![c] =
           IF ~isValid THEN [@ EXCEPT !.pc = "done", !.ret = JNull]
           ELSE IF Falsy(encryptedVault)
             THEN [@ EXCEPT !.pc = "cv93", !.encryptedVault = encryptedVault,
                            !.hash = JStr(Hashed(calls[c].masterPassword, salt))]
           ELSE [@ EXCEPT !.pc = "uv121", !.encryptedVault = encryptedVault]]
  /\ UNCHANGED <<localStorage, started, probes>>

\* unlockVault, lines 121-126: decrypt has settled
unlockVault_decrypted(c) ==
  /\ calls[c].pc = "uv121"
  /\ calls' = [calls EXCEPT ![c].pc = "done",
                 ![c].ret = Unlocked(calls[c].encryptedVault.s,
                                     calls[c].masterPassword)]
  /\ UNCHANGED <<localStorage, started, probes>>

\* a faulty saveVault: the serialized collection is stored as it is
saveVault_call_Plain(c, credentials, masterPassword, salt, iv) ==
  /\ FreeSlot(c)
  /\ calls' = [calls EXCEPT ![c] =
       [Idle EXCEPT !.op = "saveVault", !.pc = "sv136",
                    !.masterPassword = masterPassword,
                    !.credentials = credentials,
                    !.encrypted = JStr(JSONstringify(VaultData(credentials, VAULT_VERSION)))]]
  /\ started' = started + 1
  /\ UNCHANGED <<localStorage, probes>>

\* saveVault, lines 131-136: encrypt is called and awaited
saveVault_call(c, credentials, masterPassword, salt, iv) ==
  /\ FreeSlot(c)
  /\ calls' = [calls EXCEPT ![c] =
       [Idle EXCEPT !.op = "saveVault", !.pc = "sv136",
                    !.masterPassword = masterPassword,
                    !.credentials = credentials,
                    !.encrypted = JStr(Sealed(credentials, masterPassword, salt, iv))]]
  /\ started' = started + 1
  /\ UNCHANGED <<localStorage, probes>>

\* saveVault, line 137
saveVault_encrypted(c) ==
  /\ calls[c].pc = "sv136"
  /\ localStorage' = setItem(localStorage, VAULT_STORAGE_KEY, calls[c].encrypted)
  /\ calls' = [calls EXCEPT ![c].pc = "done"]
  /\ UNCHANGED <<started, probes>>

\* a faulty deleteVault: the artifact is left behind
deleteVault_ContainerOnly ==
  /\ probes = << >>
  /\ started < MaxCalls
  /\ localStorage' = removeItem(localStorage, VAULT_STORAGE_KEY)
  /\ started' = started + 1
  /\ UNCHANGED <<calls, probes>>

\* deleteVault, lines 146-149
deleteVault ==
  /\ probes = << >>
  /\ started < MaxCalls
  /\ localStorage' = removeItem(removeItem(localStorage, VAULT_STORAGE_KEY),
                                MASTER_HASH_KEY)
  /\ started' = started + 1
  /\ UNCHANGED <<calls, probes>>

\* importVault, lines 165-170: the storage it leaves and what it returns
\* importVault, lines 168-171: the second setItem, with the container
\* already in ls; when it throws, the catch returns false
importVault_storeHash_Dropped(ls, hash) == [ls |-> ls, ret |-> TRUE]
importVault_storeHash(ls, hash) ==
  IF QuotaExceeded(ls, MASTER_HASH_KEY, hash) THEN [ls |-> ls, ret |-> FALSE]
  ELSE [ls |-> setItem(ls, MASTER_HASH_KEY, hash), ret |-> TRUE]

importVault_store(ls, read) ==
  IF ~read.ok THEN [ls |-> ls, ret |-> FALSE]
  ELSE IF QuotaExceeded(ls, VAULT_STORAGE_KEY, read.encrypted)
  THEN [ls |-> ls, ret |-> FALSE]
  ELSE importVault_storeHash(setItem(ls, VAULT_STORAGE_KEY, read.encrypted),
                             read.hash)

\* importVault(data), lines 162-173
importVault_result(ls, data) == importVault_store(ls, ImportRead(data))

importVault(data) ==
  /\ probes = << >>
  /\ started < MaxCalls
  /\ localStorage' = importVault_result(localStorage, data).ls
  /\ started' = started + 1
  /\ UNCHANGED <<calls, probes>>

\* exportVault, lines 156-158
exportVault_record(encrypted, hash) ==
  IF Falsy(encrypted) \/ Falsy(hash) THEN JNull
  ELSE JStr(ExportText(encrypted, hash))

\* exportVault(), lines 152-159
exportVault(ls) ==
  exportVault_record(getItem(ls, VAULT_STORAGE_KEY), getItem(ls, MASTER_HASH_KEY))

\* exportVault is called and the caller keeps what it returned
exportVault_call ==
  /\ probes = << >>
  /\ backup' = BackupState(exportVault(localStorage), JUndefined)
  /\ UNCHANGED lib

\* VaultDashboard.handleResetVault, lines 127-131: deleteVault(), then
\* window.location.reload(): the calls in flight go with the page, and the
\* page that loads is in its first state
handleResetVault ==
  /\ localStorage' = removeItem(removeItem(localStorage, VAULT_STORAGE_KEY),
                                MASTER_HASH_KEY)
  /\ calls' = [c \in Slots |-> Idle]
  /\ started' = 0
  /\ probes' = << >>
  /\ index' = IndexState(FALSE, JArr(<< >>), << >>)
  /\ form' = FormState(TRUE, FALSE, << >>)

\* importVault of the file exportVault returned, into an empty storage
importBackup ==
  /\ backup.text.t = "str" /\ backup.imported = JUndefined
  /\ localStorage = [k \in {VAULT_STORAGE_KEY, MASTER_HASH_KEY} |-> JNull]
  /\ importVault(backup.text.s)
  /\ backup' = BackupState(backup.text,
                           JBool(importVault_result(localStorage, backup.text.s).ret))

\* the caller takes the settled promise
Return(c) ==
  /\ calls[c].pc = "done"
  /\ calls' = [calls EXCEPT ![c] = Idle]
  /\ UNCHANGED <<localStorage, started, probes>>

(***************************************************************************)
(* crypto.ts called directly.  Its functions share no state, so a call is  *)
(* one step; a behaviour either uses the vault or calls them directly.     *)
(***************************************************************************)
EncryptTable ==
  [plaintext \in ProbeTexts, masterPassword \in Passwords,
   salt \in RandomValues(SALT_LENGTH), iv \in RandomValues(IV_LENGTH) |->
     encrypt(plaintext, masterPassword, salt, iv)]
Encrypted(plaintext, masterPassword, salt, iv) ==
  EncryptTable[plaintext, masterPassword, salt, iv]
DecryptTable ==
  [ciphertext \in Range(EncryptTable) \cup DamagedContainers,
   masterPassword \in Candidates |-> decrypt(ciphertext, masterPassword)]
Decrypted(ciphertext, masterPassword) == DecryptTable[ciphertext, masterPassword]

\* a direct call: the function, its arguments (arg is the plaintext, the
\* ciphertext or the stored hash), the random values it drew, what it
\* resolved to, whether it rejected instead, and the byte comparisons made
Probe(fn, password, arg, salt, iv, out, rejected, steps) ==
  [fn |-> fn, password |-> password, arg |-> arg, salt |-> salt, iv |-> iv,
   out |-> out, rejected |-> rejected, steps |-> steps]

CanProbe ==
  /\ started = 0 /\ Len(probes) < MaxProbes
  /\ \A i \in 1..Len(probes) : probes[i].fn # "decryptTampered"

\* the strings earlier direct calls of fn resolved to
Outputs(fn) == {probes[i].out.s : i \in {j \in 1..Len(probes) : probes[j].fn = fn}}

hashPassword_call(password, salt) ==
  /\ CanProbe /\ probes = << >>
  /\ probes' = Append(probes,
       Probe("hashPassword", password, << >>, salt, << >>,
             JStr(Hashed(password, salt)), FALSE, 0))
  /\ UNCHANGED <<localStorage, calls, started>>

\* the record of a direct call of verifyPassword that ran as run
VerifyProbe(password, storedHash, run) ==
  Probe("verifyPassword", password, storedHash, << >>, << >>,
        JBool(run.result), run.threw, run.steps)

\* verifyPassword is handed an artifact an earlier call made, or a damaged one
verifyPassword_call(password, storedHash) ==
  /\ CanProbe
  /\ storedHash \in Outputs("hashPassword") \cup DamagedHashes
  /\ probes' = Append(probes,
       VerifyProbe(password, storedHash, Verified(password, storedHash)))
  /\ UNCHANGED <<localStorage, calls, started>>

encrypt_call(plaintext, masterPassword, salt, iv) ==
  /\ CanProbe /\ probes = << >>
  /\ probes' = Append(probes,
       Probe("encrypt", masterPassword, plaintext, salt, iv,
             JStr(Encrypted(plaintext, masterPassword, salt, iv)), FALSE, 0))
  /\ UNCHANGED <<localStorage, calls, started>>

\* the record of a direct call of decrypt that settled as d
DecryptProbe(ciphertext, masterPassword, d) ==
  Probe("decrypt", masterPassword, ciphertext, << >>, << >>,
        IF d.ok THEN JStr(d.plaintext) ELSE JUndefined, ~d.ok, 0)

\* decrypt is handed a container an earlier call made, or a damaged one
decrypt_call(ciphertext, masterPassword) ==
  /\ CanProbe
  /\ ciphertext \in Outputs("encrypt") \cup DamagedContainers
  /\ probes' = Append(probes,
       DecryptProbe(ciphertext, masterPassword, Decrypted(ciphertext, masterPassword)))
  /\ UNCHANGED <<localStorage, calls, started>>

\* the bytes of the containers direct calls of encrypt make of the two short
\* plaintexts
BytesTable ==
  [ciphertext \in {EncryptTable[k] : k \in {q \in DOMAIN EncryptTable : q[1] # TextGood}} |->
     base64ToUint8Array(ciphertext).bytes]
\* the offsets of the ciphertext and tag of the longest of them
TamperOffsets ==
  UNION {(SALT_LENGTH + IV_LENGTH)..(Len(BytesTable[ciphertext]) - 1) :
           ciphertext \in DOMAIN BytesTable}

\* the record of a direct call of decrypt on a changed container that
\* settled as d
TamperProbe(ciphertext, masterPassword, d) ==
  Probe("decryptTampered", masterPassword, ciphertext, << >>, << >>,
        IF d.ok THEN JStr(d.plaintext) ELSE JUndefined, ~d.ok, 0)
decryptTampered(ciphertext, masterPassword) ==
  TamperProbe(ciphertext, masterPassword, decrypt(ciphertext, masterPassword))

\* decrypt is handed, with the password it was sealed under, the container an
\* earlier call of encrypt made, the byte at offset (from 0) of its
\* ciphertext or tag changed by delta; it is the last direct call of the
\* behaviour
decryptTampered_call ==
  /\ started = 0 /\ Len(probes) = 1
  /\ probes[1].fn = "encrypt" /\ probes[1].out.s \in DOMAIN BytesTable
  /\ \E offset \in TamperOffsets, delta \in Deltas :
       /\ offset < Len(BytesTable[probes[1].out.s])
       /\ probes' = Append(probes,
            decryptTampered(
              uint8ArrayToBase64(Tamper(BytesTable[probes[1].out.s], offset, delta)),
              probes[1].password))
  /\ UNCHANGED <<localStorage, calls, started>>

Next ==
  \/ \E c \in Slots, pw \in Passwords, salt \in RandomValues(SALT_LENGTH) :
       createVault_call(c, pw, salt) /\ UNCHANGED <<page, drawn, backup>>
  \/ \E c \in Slots, salt \in RandomValues(SALT_LENGTH), iv \in RandomValues(IV_LENGTH) :
       createVault_hashed(c, salt, iv) /\ UNCHANGED <<page, drawn, backup>>
  \/ \E c \in Slots : createVault_encrypted(c) /\ UNCHANGED <<page, drawn, backup>>
  \/ \E c \in Slots, pw \in Candidates : unlockVault_call(c, pw) /\ UNCHANGED <<page, drawn, backup>>
  \/ \E c \in Slots, salt \in RandomValues(SALT_LENGTH) : unlockVault_verified(c, salt) /\ UNCHANGED <<page, drawn, backup>>
  \/ \E c \in Slots : unlockVault_decrypted(c) /\ UNCHANGED <<page, drawn, backup>>
  \/ \E c \in Slots, creds \in Collections, pw \in Passwords,
        salt \in RandomValues(SALT_LENGTH), iv \in RandomValues(IV_LENGTH) :
       saveVault_call(c, creds, pw, salt, iv) /\ UNCHANGED <<page, drawn, backup>>
  \/ \E c \in Slots : saveVault_encrypted(c) /\ UNCHANGED <<page, drawn, backup>>
  \/ deleteVault /\ UNCHANGED <<page, drawn, backup>>
  \/ \E data \in ImportFiles : importVault(data) /\ UNCHANGED <<page, drawn, backup>>
  \/ \E c \in Slots : Return(c) /\ UNCHANGED <<page, drawn, backup>>
  \/ \E pw \in Candidates, salt \in RandomValues(SALT_LENGTH) : hashPassword_call(pw, salt) /\ UNCHANGED <<page, drawn, backup>>
  \/ \E pw \in Candidates, h \in Range(HashTable) \cup DamagedHashes :
       verifyPassword_call(pw, h) /\ UNCHANGED <<page, drawn, backup>>
  \/ \E x \in ProbeTexts, pw \in Passwords,
        salt \in RandomValues(SALT_LENGTH), iv \in RandomValues(IV_LENGTH) :
       encrypt_call(x, pw, salt, iv) /\ UNCHANGED <<page, drawn, backup>>
  \/ \E pw \in Candidates, ct \in Range(EncryptTable) \cup DamagedContainers :
       decrypt_call(ct, pw) /\ UNCHANGED <<page, drawn, backup>>
  \/ decryptTampered_call /\ UNCHANGED <<page, drawn, backup>>

Spec == Init /\ [][Next]_vars

(***************************************************************************)
(* The random draws and what is sealed from them.  crypto.getRandomValues  *)
(* may return the same bytes twice, so a draw is known by its place in     *)
(* draws, not by its value.                                                *)
(***************************************************************************)
\* hashPassword, line 104: one draw of SALT_LENGTH bytes
DrawSalt(salt) ==
  /\ draws' = Append(draws, salt)
  /\ UNCHANGED seals

\* encrypt, lines 64-65, called by the call in slot c: a draw of SALT_LENGTH
\* bytes, then a draw of IV_LENGTH bytes; encrypted is what encrypt resolves to
DrawSeal(c, salt, iv) ==
  /\ draws' = draws \o <<salt, iv>>
  /\ seals' = Append(seals,
       [slot |-> c, salt |-> Len(draws) + 1, iv |-> Len(draws) + 2,
        encrypted |-> calls'[c].encrypted.s,
        masterPassword |-> calls'[c].masterPassword,
        persisted |-> FALSE])

\* createVault, line 102, and saveVault, line 137: the call in slot c stores
\* what its encrypt call resolved to
StoreSeal(c) ==
  /\ seals' = [i \in 1..Len(seals) |->
                 IF seals[i].slot = c
                 THEN [seals[i] EXCEPT !.slot = 0, !.persisted = TRUE]
                 ELSE seals[i]]
  /\ UNCHANGED draws

\* createVault and saveVault called under one password in any order and
\* overlapping, with every draw recorded
SealNext ==
  \/ \E c \in Slots, pw \in {PwA}, salt \in RandomValues(SALT_LENGTH) :
       createVault_call(c, pw, salt) /\ DrawSalt(salt) /\ UNCHANGED <<page, backup>>
  \/ \E c \in Slots, salt \in RandomValues(SALT_LENGTH), iv \in RandomValues(IV_LENGTH) :
       createVault_hashed(c, salt, iv) /\ DrawSeal(c, salt, iv) /\ UNCHANGED <<page, backup>>
  \/ \E c \in Slots : createVault_encrypted(c) /\ StoreSeal(c) /\ UNCHANGED <<page, backup>>
  \/ \E c \in Slots, creds \in Collections, pw \in {PwA},
        salt \in RandomValues(SALT_LENGTH), iv \in RandomValues(IV_LENGTH) :
       saveVault_call(c, creds, pw, salt, iv) /\ DrawSeal(c, salt, iv) /\ UNCHANGED <<page, backup>>
  \/ \E c \in Slots : saveVault_encrypted(c) /\ StoreSeal(c) /\ UNCHANGED <<page, backup>>
  \/ \E c \in Slots : Return(c) /\ UNCHANGED <<page, drawn, backup>>

SealSpec == Init /\ [][SealNext]_vars

(***************************************************************************)
(* The vault alone: every sequence and interleaving of createVault,        *)
(* unlockVault and saveVault                                               *)
(***************************************************************************)
VaultNext ==
  \/ \E c \in Slots, pw \in Passwords, salt \in RandomValues(SALT_LENGTH) :
       createVault_call(c, pw, salt) /\ UNCHANGED <<page, drawn, backup>>
  \/ \E c \in Slots, salt \in RandomValues(SALT_LENGTH), iv \in RandomValues(IV_LENGTH) :
       createVault_hashed(c, salt, iv) /\ UNCHANGED <<page, drawn, backup>>
  \/ \E c \in Slots : createVault_encrypted(c) /\ UNCHANGED <<page, drawn, backup>>
  \/ \E c \in Slots, pw \in Candidates :
       unlockVault_call(c, pw) /\ UNCHANGED <<page, drawn, backup>>
  \/ \E c \in Slots, salt \in RandomValues(SALT_LENGTH) :
       unlockVault_verified(c, salt) /\ UNCHANGED <<page, drawn, backup>>
  \/ \E c \in Slots : unlockVault_decrypted(c) /\ UNCHANGED <<page, drawn, backup>>
  \/ \E c \in Slots, creds \in Collections, pw \in Passwords,
        salt \in RandomValues(SALT_LENGTH), iv \in RandomValues(IV_LENGTH) :
       saveVault_call(c, creds, pw, salt, iv) /\ UNCHANGED <<page, drawn, backup>>
  \/ \E c \in Slots : saveVault_encrypted(c) /\ UNCHANGED <<page, drawn, backup>>
  \/ \E c \in Slots : Return(c) /\ UNCHANGED <<page, drawn, backup>>

VaultSpec == Init /\ [][VaultNext]_vars

(***************************************************************************)
(* lib/vault as its owner calls it: createVault with any password, and     *)
(* saveVault only with a password that the stored artifact verifies, the   *)
(* one the vault was created or unlocked with.                             *)
(***************************************************************************)
OwnerNext ==
  \/ \E c \in Slots, pw \in Passwords, salt \in RandomValues(SALT_LENGTH) :
       createVault_call(c, pw, salt) /\ UNCHANGED <<page, drawn, backup>>
  \/ \E c \in Slots, salt \in RandomValues(SALT_LENGTH), iv \in RandomValues(IV_LENGTH) :
       createVault_hashed(c, salt, iv) /\ UNCHANGED <<page, drawn, backup>>
  \/ \E c \in Slots : createVault_encrypted(c) /\ UNCHANGED <<page, drawn, backup>>
  \/ \E c \in Slots, pw \in Candidates :
       unlockVault_call(c, pw) /\ UNCHANGED <<page, drawn, backup>>
  \/ \E c \in Slots, salt \in RandomValues(SALT_LENGTH) :
       unlockVault_verified(c, salt) /\ UNCHANGED <<page, drawn, backup>>
  \/ \E c \in Slots : unlockVault_decrypted(c) /\ UNCHANGED <<page, drawn, backup>>
  \/ /\ localStorage[MASTER_HASH_KEY] # JNull
     /\ \E pw \in Passwords :
          /\ Verified(pw, localStorage[MASTER_HASH_KEY].s).result
          /\ \E c \in Slots, creds \in Collections,
                salt \in RandomValues(SALT_LENGTH), iv \in RandomValues(IV_LENGTH) :
               saveVault_call(c, creds, pw, salt, iv) /\ UNCHANGED <<page, drawn, backup>>
  \/ \E c \in Slots : saveVault_encrypted(c) /\ UNCHANGED <<page, drawn, backup>>
  \/ \E c \in Slots : Return(c) /\ UNCHANGED <<page, drawn, backup>>

OwnerSpec == Init /\ [][OwnerNext]_vars

(***************************************************************************)
(* Backup and restore: a vault is created and saved, exportVault is called *)
(* once, the vault is reset, the file is imported into the empty storage   *)
(* and the vault is unlocked                                               *)
(***************************************************************************)
BackupNext ==
  \/ /\ backup.text = JUndefined
     /\ \E c \in Slots, pw \in {PwA}, salt \in RandomValues(SALT_LENGTH) :
          createVault_call(c, pw, salt)
     /\ UNCHANGED <<page, drawn, backup>>
  \/ \E c \in Slots, salt \in RandomValues(SALT_LENGTH), iv \in RandomValues(IV_LENGTH) :
       createVault_hashed(c, salt, iv) /\ UNCHANGED <<page, drawn, backup>>
  \/ \E c \in Slots : createVault_encrypted(c) /\ UNCHANGED <<page, drawn, backup>>
  \/ /\ backup.text = JUndefined
     /\ \E c \in Slots, creds \in Collections, pw \in {PwA},
           salt \in RandomValues(SALT_LENGTH), iv \in RandomValues(IV_LENGTH) :
          saveVault_call(c, creds, pw, salt, iv)
     /\ UNCHANGED <<page, drawn, backup>>
  \/ \E c \in Slots : saveVault_encrypted(c) /\ UNCHANGED <<page, drawn, backup>>
  \/ backup.text = JUndefined /\ exportVault_call /\ UNCHANGED <<page, drawn>>
  \/ /\ backup.text.t = "str" /\ backup.imported = JUndefined
     /\ handleResetVault /\ UNCHANGED <<drawn, backup>>
  \/ importBackup /\ UNCHANGED <<page, drawn>>
  \/ /\ backup.imported # JUndefined
     /\ \E c \in Slots, pw \in Candidates : unlockVault_call(c, pw)
     /\ UNCHANGED <<page, drawn, backup>>
  \/ \E c \in Slots, salt \in RandomValues(SALT_LENGTH) :
       unlockVault_verified(c, salt) /\ UNCHANGED <<page, drawn, backup>>
  \/ \E c \in Slots : unlockVault_decrypted(c) /\ UNCHANGED <<page, drawn, backup>>
  \/ \E c \in Slots : Return(c) /\ UNCHANGED <<page, drawn, backup>>

BackupSpec == Init /\ [][BackupNext]_vars

(***************************************************************************)
(* The page: Index, the MasterPassword form and VaultDashboard             *)
(***************************************************************************)
\* the messages of MasterPassword.handleSubmit
ErrMismatch == <<80, 97, 115, 115, 119, 111, 114, 100, 115, 32, 100, 111, 32, 110, 111, 116, 32, 109, 97, 116, 99, 104>>
ErrTooShort == <<80, 97, 115, 115, 119, 111, 114, 100, 32, 109, 117, 115, 116, 32, 98, 101, 32, 97, 116, 32, 108, 101, 97, 115, 116, 32, 56, 32, 99, 104, 97, 114, 97, 99, 116, 101, 114, 115>>
ErrInvalid == <<73, 110, 118, 97, 108, 105, 100, 32, 109, 97, 115, 116, 101, 114, 32, 112, 97, 115, 115, 119, 111, 114, 100>>
ErrOccurred == <<65, 110, 32, 101, 114, 114, 111, 114, 32, 111, 99, 99, 117, 114, 114, 101, 100, 46, 32, 80, 108, 101, 97, 115, 101, 32, 116, 114, 121, 32, 97, 103, 97, 105, 110, 46>>

\* the form while VaultDashboard is shown in its place
Unmounted == FormState(FALSE, FALSE, << >>)

\* the submit button is enabled (CredentialForm.tsx, line 401)
CanSubmit(password) == ~index.isUnlocked /\ ~form.isLoading /\ password # << >>

\* MasterPassword.handleSubmit, lines 273-283: the new password is refused
handleSubmit_refused(password, confirmPassword) ==
  /\ CanSubmit(password)
  /\ form.isNewVault
  /\ password # confirmPassword \/ Len(password) < 8
  /\ form' = FormState(TRUE, FALSE,
                       IF password # confirmPassword THEN ErrMismatch ELSE ErrTooShort)
  /\ UNCHANGED <<lib, index>>

\* MasterPassword.handleSubmit, lines 267-284: createVault is called and awaited
handleSubmit_createVault(c, password, confirmPassword, salt) ==
  /\ CanSubmit(password)
  /\ form.isNewVault
  /\ password = confirmPassword /\ Len(password) >= 8
  /\ createVault_call(c, password, salt)
  /\ form' = FormState(TRUE, TRUE, << >>)
  /\ UNCHANGED index

\* MasterPassword.handleSubmit, lines 285-286, and Index.handleUnlock
handleSubmit_created(c) ==
  /\ calls[c].op = "createVault"
  /\ Return(c)
  /\ index' = IndexState(TRUE, JArr(<< >>), calls[c].masterPassword)
  /\ form' = Unmounted

\* MasterPassword.handleSubmit, lines 267-288: unlockVault is called and awaited
handleSubmit_unlockVault(c, password) ==
  /\ CanSubmit(password)
  /\ ~form.isNewVault
  /\ unlockVault_call(c, password)
  /\ form' = FormState(FALSE, TRUE, << >>)
  /\ UNCHANGED index

\* MasterPassword, "Create one" (line 432): setIsNewVault(true)
createOne ==
  /\ ~index.isUnlocked /\ ~form.isNewVault
  /\ form' = [form EXCEPT !.isNewVault = TRUE]
  /\ UNCHANGED <<lib, index>>

\* a faulty handleSubmit: setIsLoading(false) is missing before the return
\* of line 292
handleSubmit_unlocked_StillLoading(c) ==
  /\ calls[c].op = "unlockVault"
  /\ Return(c)
  /\ IF calls[c].ret = JNull
     THEN /\ form' = [form EXCEPT !.error = ErrInvalid]
          /\ UNCHANGED index
     ELSE /\ index' = IndexState(TRUE, calls[c].ret, calls[c].masterPassword)
          /\ form' = Unmounted

\* MasterPassword.handleSubmit, lines 289-295, and Index.handleUnlock
handleSubmit_unlocked(c) ==
  /\ calls[c].op = "unlockVault"
  /\ Return(c)
  /\ IF calls[c].ret = JNull
     THEN /\ form' = [form EXCEPT !.isLoading = FALSE, !.error = ErrInvalid]
          /\ UNCHANGED index
     ELSE /\ index' = IndexState(TRUE, calls[c].ret, calls[c].masterPassword)
          /\ form' = Unmounted

\* MasterPassword.handleSubmit, lines 297-301: the promise it awaits is
\* rejected, createVault having thrown at its next setItem (Index.tsx lines
\* 94 and 102, QuotaExceededError); the catch sets the message and
\* setIsLoading(false) follows
handleSubmit_threw(c) ==
  /\ ~index.isUnlocked
  /\ calls[c].pc \in {"cv93", "cv101"}
  /\ calls' = [calls EXCEPT ![c] = Idle]
  /\ form' = [form EXCEPT !.isLoading = FALSE, !.error = ErrOccurred]
  /\ UNCHANGED <<localStorage, started, probes, index>>

\* a faulty handleLock: only setIsUnlocked(false) is called
handleLock_KeepsSecrets ==
  /\ index.isUnlocked
  /\ index' = [index EXCEPT !.isUnlocked = FALSE]
  /\ form' = FormState(~vaultExists(localStorage), FALSE, << >>)
  /\ UNCHANGED lib

\* Index.handleLock, lines 25-29; MasterPassword is mounted anew
handleLock ==
  /\ index.isUnlocked
  /\ index' = IndexState(FALSE, JArr(<< >>), << >>)
  /\ form' = FormState(~vaultExists(localStorage), FALSE, << >>)
  /\ UNCHANGED lib

\* credentials.find(c => c.id === id)
HasId(credentials, id) ==
  \E i \in 1..Len(credentials.a) : GetProp(credentials.a[i], K_id).v = JStr(id)

\* VaultDashboard.handleSave, lines 96-105
handleSave_updated(credentials, credential) ==
  IF HasId(credentials, GetProp(credential, K_id).v.s)
  THEN JArr([i \in 1..Len(credentials.a) |->
               IF GetProp(credentials.a[i], K_id).v = GetProp(credential, K_id).v
               THEN credential ELSE credentials.a[i]])
  ELSE JArr(Append(credentials.a, credential))

\* VaultDashboard.handleDelete, line 112
handleDelete_updated(credentials, id) ==
  JArr(SelectSeq(credentials.a, LAMBDA c : GetProp(c, K_id).v # JStr(id)))

\* VaultDashboard.handleToggleFavorite, lines 120-122
handleToggleFavorite_updated(credentials, id) ==
  JArr([i \in 1..Len(credentials.a) |->
          IF GetProp(credentials.a[i], K_id).v = JStr(id)
          THEN toggleFavorite(credentials.a[i]) ELSE credentials.a[i]])

\* a mutation of the dashboard, lines 107-108, 113-114 and 123-124:
\* onUpdate(updated), then saveVault(updated, masterPassword) is called and
\* awaited
mutate(c, updated, salt, iv) ==
  /\ index.isUnlocked
  /\ index' = [index EXCEPT !.credentials = updated]
  /\ saveVault_call(c, updated, index.masterPassword, salt, iv)
  /\ UNCHANGED form

\* VaultDashboard.handleSave, lines 95-109
handleSave(c, credential, salt, iv) ==
  mutate(c, handleSave_updated(index.credentials, credential), salt, iv)

\* VaultDashboard.handleDelete, lines 111-114, from the card of id
handleDelete(c, id, salt, iv) ==
  /\ HasId(index.credentials, id)
  /\ mutate(c, handleDelete_updated(index.credentials, id), salt, iv)

\* VaultDashboard.handleToggleFavorite, lines 119-125, from the card of id
handleToggleFavorite(c, id, salt, iv) ==
  /\ HasId(index.credentials, id)
  /\ mutate(c, handleToggleFavorite_updated(index.credentials, id), salt, iv)

\* the handler that awaited saveVault goes on, lines 109, 115-116 and 125
mutated(c) == calls[c].op = "saveVault" /\ Return(c)

\* CredentialForm.handleSubmit for a new credential, and handleSave of it
addCredential(c, fields, id, now, salt, iv) ==
  handleSave(c, newCredential(JNull, fields, id, now), salt, iv)

\* CredentialForm.handleSubmit for the credential of the i-th card
\* (onEdit, line 242), and handleSave of it
editCredential(c, i, fields, id, now, salt, iv) ==
  /\ index.isUnlocked
  /\ i <= Len(index.credentials.a)
  /\ now >= GetProp(index.credentials.a[i], K_createdAt).v.n
  /\ handleSave(c, newCredential(index.credentials.a[i], fields, id, now), salt, iv)

\* the browser loads the page again: the calls in flight go with the page,
\* the storage stays, and MasterPassword is mounted with
\* useState(!vaultExists())
reload ==
  /\ calls' = [c \in Slots |-> Idle]
  /\ started' = 0
  /\ index' = IndexState(FALSE, JArr(<< >>), << >>)
  /\ form' = FormState(~vaultExists(localStorage), FALSE, << >>)
  /\ UNCHANGED <<localStorage, probes>>

AppNext ==
  \/ /\ ~index.isUnlocked /\ ~form.isLoading /\ form.isNewVault
     /\ \E pw \in Candidates : \E confirm \in {pw, PwA} :
          handleSubmit_refused(pw, confirm) /\ UNCHANGED <<drawn, backup>>
  \/ \E c \in Slots, pw \in {PwA}, salt \in {Salt0} :
       handleSubmit_createVault(c, pw, pw, salt) /\ UNCHANGED <<drawn, backup>>
  \/ \E c \in Slots, salt \in {Salt0}, iv \in {Iv0} :
       createVault_hashed(c, salt, iv) /\ UNCHANGED <<page, drawn, backup>>
  \/ \E c \in Slots : createVault_encrypted(c) /\ UNCHANGED <<page, drawn, backup>>
  \/ \E c \in Slots : handleSubmit_created(c) /\ UNCHANGED <<drawn, backup>>
  \/ \E c \in Slots, pw \in Passwords :
       handleSubmit_unlockVault(c, pw) /\ UNCHANGED <<drawn, backup>>
  \/ \E c \in Slots, salt \in {Salt0} :
       unlockVault_verified(c, salt) /\ UNCHANGED <<page, drawn, backup>>
  \/ \E c \in Slots : unlockVault_decrypted(c) /\ UNCHANGED <<page, drawn, backup>>
  \/ \E c \in Slots : handleSubmit_unlocked(c) /\ UNCHANGED <<drawn, backup>>
  \/ \E c \in Slots : handleSubmit_threw(c) /\ UNCHANGED <<drawn, backup>>
  \/ createOne /\ UNCHANGED <<drawn, backup>>
  \/ handleLock /\ UNCHANGED <<drawn, backup>>
  \/ \E c \in Slots, fields \in FormFields, id \in AppIds, now \in Clock :
       addCredential(c, fields, id, now, Salt0, Iv0) /\ UNCHANGED <<drawn, backup>>
  \/ \E c \in Slots, i \in 1..Cardinality(AppIds), fields \in FormFields,
        id \in AppIds, now \in Clock :
       editCredential(c, i, fields, id, now, Salt0, Iv0) /\ UNCHANGED <<drawn, backup>>
  \/ \E c \in Slots, id \in AppIds :
       handleDelete(c, id, Salt0, Iv0) /\ UNCHANGED <<drawn, backup>>
  \/ \E c \in Slots, id \in AppIds :
       handleToggleFavorite(c, id, Salt0, Iv0) /\ UNCHANGED <<drawn, backup>>
  \/ \E c \in Slots : saveVault_encrypted(c) /\ UNCHANGED <<page, drawn, backup>>
  \/ \E c \in Slots : mutated(c) /\ UNCHANGED <<page, drawn, backup>>
  \/ index.isUnlocked /\ handleResetVault /\ UNCHANGED <<drawn, backup>>
  \/ reload /\ UNCHANGED <<drawn, backup>>

AppSpec == Init /\ [][AppNext]_vars

(***************************************************************************)
(* The master-password form alone: Index shows MasterPassword, the         *)
(* dashboard is only locked again.  The promises that handleSubmit awaits  *)
(* settle: the event loop runs the continuation of a call that can go on.  *)
(***************************************************************************)
\* the continuation of the call that handleSubmit awaits, and of
\* handleSubmit once the call has settled
FormContinue ==
  \E c \in Slots :
    \/ \E salt \in RandomValues(SALT_LENGTH), iv \in RandomValues(IV_LENGTH) :
         createVault_hashed(c, salt, iv) /\ UNCHANGED <<page, drawn, backup>>
    \/ createVault_encrypted(c) /\ UNCHANGED <<page, drawn, backup>>
    \/ handleSubmit_created(c) /\ UNCHANGED <<drawn, backup>>
    \/ \E salt \in RandomValues(SALT_LENGTH) :
         unlockVault_verified(c, salt) /\ UNCHANGED <<page, drawn, backup>>
    \/ unlockVault_decrypted(c) /\ UNCHANGED <<page, drawn, backup>>
    \/ handleSubmit_unlocked(c) /\ UNCHANGED <<drawn, backup>>

FormNext ==
  \/ /\ ~index.isUnlocked /\ ~form.isLoading /\ form.isNewVault
     /\ \E pw \in Candidates : \E confirm \in {pw, PwA} :
          handleSubmit_refused(pw, confirm) /\ UNCHANGED <<drawn, backup>>
  \/ \E c \in Slots, pw \in Candidates, salt \in RandomValues(SALT_LENGTH) :
       handleSubmit_createVault(c, pw, pw, salt) /\ UNCHANGED <<drawn, backup>>
  \/ \E c \in Slots, pw \in Candidates :
       handleSubmit_unlockVault(c, pw) /\ UNCHANGED <<drawn, backup>>
  \/ FormContinue
  \/ \E c \in Slots : handleSubmit_threw(c) /\ UNCHANGED <<drawn, backup>>
  \/ createOne /\ UNCHANGED <<drawn, backup>>
  \/ handleLock /\ UNCHANGED <<drawn, backup>>
  \/ reload /\ UNCHANGED <<drawn, backup>>

FormSpec == Init /\ [][FormNext]_vars /\ WF_vars(FormContinue)

(***************************************************************************)
(* Vocabulary of the properties                                            *)
(***************************************************************************)
\* a call of unlockVault whose promise has settled
UnlockDone(c) == calls[c].op = "unlockVault" /\ calls[c].pc = "done"

\* ... that read a container at line 113 and went on to decrypt it
ReadContainer(c) == UnlockDone(c) /\ ~Falsy(calls[c].encryptedVault)

\* ... that read an artifact hashPassword made of another password
WrongPassword(c) ==
  /\ UnlockDone(c)
  /\ calls[c].storedHash.t = "str"
  /\ \E k \in DOMAIN HashTable :
       HashTable[k] = calls[c].storedHash.s /\ k[1] # calls[c].masterPassword

\* what a container holds for a password: whether it authenticates and
\* decrypts, and what its plaintext parses to
DecodedVault(d) ==
  [ok |-> d.ok,
   data |-> IF d.ok THEN JSONparse(d.plaintext) ELSE [ok |-> FALSE, v |-> JUndefined]]
DecodeTable ==
  [encryptedVault \in Containers, masterPassword \in Candidates |->
     DecodedVault(decrypt(encryptedVault, masterPassword))]
Decoded(c) == DecodeTable[calls[c].encryptedVault.s, calls[c].masterPassword]

\* the plaintext is a record that carries a list of credentials
IsVaultData(data) ==
  data.ok /\ data.v.t = "obj" /\ GetProp(data.v, K_credentials).v.t = "arr"

\* same elements in the same order, same members with the same values (a
\* member that is undefined and a member that is missing read the same)
Names(obj) == {obj.k[i] : i \in 1..Len(obj.k)}
RECURSIVE SameValue(_, _)
SameValue(a, b) ==
  IF a.t = "arr" /\ b.t = "arr"
    THEN Len(a.a) = Len(b.a) /\ \A i \in 1..Len(a.a) : SameValue(a.a[i], b.a[i])
  ELSE IF a.t = "obj" /\ b.t = "obj"
    THEN \A key \in Names(a) \cup Names(b) :
           SameValue(GetProp(a, key).v, GetProp(b, key).v)
  ELSE a = b

\* the direct calls of fn made so far
ProbesOf(fn) == {i \in 1..Len(probes) : probes[i].fn = fn}

(***************************************************************************)
(* C1: master_hash and encrypted_vault are both present or both absent,    *)
(* except while a createVault call is between its two writes.              *)
(***************************************************************************)
\* C1: in every reachable state the two slots are both present or both
\* absent, unless a createVault call has written master_hash (line 94) and
\* not yet encrypted_vault (line 102)
C1_SlotsTogether ==
  \/ (getItem(localStorage, MASTER_HASH_KEY) = JNull)
       = (getItem(localStorage, VAULT_STORAGE_KEY) = JNull)
  \/ \E c \in Slots : calls[c].pc = "cv101"

(***************************************************************************)
(* C2: a wrong password is rejected.                                       *)
(***************************************************************************)
\* C2: unlockVault(P2) on an artifact that hashPassword made of another
\* password P returns null, never a collection and never the empty list; and
\* decrypt(encrypt(x, P), P2) rejects for P2 # P
C2_WrongPasswordRejected ==
  /\ \A c \in Slots : WrongPassword(c) => calls[c].ret = JNull
  /\ \A i \in ProbesOf("encrypt"), j \in ProbesOf("decrypt") :
       (probes[j].arg = probes[i].out.s /\ probes[j].password # probes[i].password)
         => probes[j].rejected

\* the slots hold an artifact of P and a container sealed from a collection
\* C of two credentials under P, no other call is in flight, and
\* unlockVault(P2), P2 # P, has returned null
C2_Witness ==
  \E c \in Slots :
    /\ WrongPassword(c)
    /\ calls[c].ret = JNull
    /\ \A d \in Slots \ {c} : calls[d].op = "idle"
    /\ \E k \in DOMAIN SealTable :
         /\ k[1] = JArr(<<Cred2, Cred1>>)
         /\ k[2] # calls[c].masterPassword
         /\ getItem(localStorage, VAULT_STORAGE_KEY) = JStr(SealTable[k])
         /\ \E salt \in RandomValues(SALT_LENGTH) :
              getItem(localStorage, MASTER_HASH_KEY) = JStr(HashTable[k[2], salt])

(***************************************************************************)
(* C3: round trip.                                                         *)
(***************************************************************************)
\* unlockVault(P) on a container that createVault(P) or saveVault(C, P) sealed
\* returns the collection sealed in it: [] after createVault, C after saveVault
VaultRoundTrip ==
  \A c \in Slots : ReadContainer(c) =>
    \A k \in DOMAIN SealTable :
      (SealTable[k] = calls[c].encryptedVault.s /\ k[2] = calls[c].masterPassword)
        => SameValue(calls[c].ret, k[1])

\* decrypt(encrypt(x, P), P) resolves to x, for the plaintexts x in texts
CodecRoundTrip(texts) ==
  \A i \in ProbesOf("encrypt"), j \in ProbesOf("decrypt") :
    (/\ probes[i].arg \in texts
     /\ probes[j].arg = probes[i].out.s
     /\ probes[j].password = probes[i].password)
      => (~probes[j].rejected /\ probes[j].out = JStr(probes[i].arg))

VersionMismatch(c) ==
  /\ ReadContainer(c)
  /\ IsVaultData(Decoded(c).data)
  /\ GetProp(Decoded(c).data.v, K_version).v # JNum(VAULT_VERSION)

\* C4: when the container decrypts under the correct password to a
\* VaultData of another version than 1, unlockVault returns null
C4_VersionRejected ==
  \A c \in Slots : VersionMismatch(c) => calls[c].ret = JNull

\* the container authenticates and decrypts under the password of the call,
\* but its plaintext is no record that carries a list of credentials
Malformed(c) ==
  /\ ReadContainer(c)
  /\ Decoded(c).ok
  /\ ~IsVaultData(Decoded(c).data)

\* C5: when the plaintext does not parse to a record carrying a list of
\* credentials unlockVault returns null, and unlockVault never returns a
\* value that is neither null nor a list
C5_MalformedRejected ==
  \A c \in Slots :
    /\ Malformed(c) => calls[c].ret = JNull
    /\ UnlockDone(c) => (calls[c].ret = JNull \/ calls[c].ret.t = "arr")

\* the container does not decode, authenticate and decrypt under the
\* password of the call
Undecryptable(c) == ReadContainer(c) /\ ~Decoded(c).ok

\* C6: for a wrong password, a malformed or badly encoded container, an
\* authentication-tag failure and a version mismatch alike, unlockVault
\* resolves to null
C6_FailuresAlike ==
  \A c \in Slots :
    (WrongPassword(c) \/ Undecryptable(c) \/ VersionMismatch(c))
      => calls[c].ret = JNull

(***************************************************************************)
(* C7 - C10: hashPassword and verifyPassword.                              *)
(***************************************************************************)
\* C7: two runs of verifyPassword against the same artifact that both find
\* a mismatch make the same number of byte comparisons
C7_ConstantTimeCompare ==
  \A i, j \in ProbesOf("verifyPassword") :
    (/\ probes[i].arg = probes[j].arg
     /\ probes[i].out = JBool(FALSE) /\ probes[i].steps > 0
     /\ probes[j].out = JBool(FALSE) /\ probes[j].steps > 0)
      => probes[i].steps = probes[j].steps

\* the bits an artifact stores after its salt
StoredBits(artifact) ==
  slice(base64ToUint8Array(artifact).bytes, SALT_LENGTH, SALT_LENGTH + 32)

\* C8: the 256 bits hashPassword stores for (P, S) differ from the raw key
\* deriveKey(P, S) yields for the same salt
C8_StoredBitsNotKey ==
  \A i \in ProbesOf("hashPassword") :
    StoredBits(probes[i].out.s) # deriveKey(probes[i].password, probes[i].salt)

\* C9: verifyPassword(P2, A) for an artifact A that hashPassword made of P
\* is true when P2 = P and false when P2 # P
C9_VerifyDecides ==
  \A i \in ProbesOf("hashPassword"), j \in ProbesOf("verifyPassword") :
    probes[j].arg = probes[i].out.s
      => (/\ ~probes[j].rejected
          /\ probes[j].out = JBool(probes[j].password = probes[i].password))

\* hashPassword(P) made A, verifyPassword(P, A) was true and verifyPassword
\* of another password that shares bytes with P was false
C9_Witness ==
  \E i \in ProbesOf("hashPassword"), j, l \in ProbesOf("verifyPassword") :
    /\ probes[j].arg = probes[i].out.s /\ probes[l].arg = probes[i].out.s
    /\ probes[j].password = probes[i].password /\ probes[j].out = JBool(TRUE)
    /\ probes[l].password # probes[i].password /\ probes[l].out = JBool(FALSE)
    /\ probes[l].steps > 1

\* the stored token is no valid base64, or does not decode to 16 + 32 bytes
MalformedArtifact(storedHash) ==
  \/ ~base64ToUint8Array(storedHash).ok
  \/ Len(base64ToUint8Array(storedHash).bytes) # SALT_LENGTH + 32

\* C10: on a malformed artifact verifyPassword returns false for every
\* candidate password and never throws
C10_VerifyFailsClosed ==
  \A j \in ProbesOf("verifyPassword") :
    MalformedArtifact(probes[j].arg)
      => (probes[j].out = JBool(FALSE) /\ ~probes[j].rejected)

\* verifyPassword has returned false for a token that is no base64 and for
\* a token that decodes to fewer than 48 bytes
C10_Witness ==
  \E j, l \in ProbesOf("verifyPassword") :
    /\ ~base64ToUint8Array(probes[j].arg).ok
    /\ probes[j].out = JBool(FALSE)
    /\ base64ToUint8Array(probes[l].arg).ok
    /\ Len(base64ToUint8Array(probes[l].arg).bytes) = SALT_LENGTH + 31
    /\ probes[l].out = JBool(FALSE)

(***************************************************************************)
(* C11: salt and nonce are fresh on every seal.                            *)
(***************************************************************************)
\* the salt and the nonce a container carries in its bytes [0, 16) and
\* [16, 28), and the key it was sealed with
SealFields(encrypted, masterPassword) ==
  LET combined == base64ToUint8Array(encrypted).bytes
      salt == slice(combined, 0, SALT_LENGTH)
  IN  [salt |-> salt,
       iv |-> slice(combined, SALT_LENGTH, SALT_LENGTH + IV_LENGTH),
       key |-> deriveKey(masterPassword, salt)]
FieldsTable ==
  [encrypted \in Range(SealTable) |->
     [masterPassword \in Candidates |-> SealFields(encrypted, masterPassword)]]
FieldsOf(seal) == FieldsTable[seal.encrypted][seal.masterPassword]

OneByteChanged(a, b) ==
  LET x == base64ToUint8Array(a).bytes
      y == base64ToUint8Array(b).bytes
  IN  /\ Len(x) = Len(y)
      /\ Cardinality({i \in 1..Len(x) : x[i] # y[i]}) = 1
      /\ \A i \in 1..Len(x) : x[i] # y[i] => i > SALT_LENGTH + IV_LENGTH

\* a call of unlockVault with the password GoodContainer was sealed under
\* that read GoodContainer with one byte changed
ReadTampered(c) ==
  /\ ReadContainer(c)
  /\ calls[c].masterPassword = PwA
  /\ calls[c].encryptedVault.s \in TamperedContainers
  /\ OneByteChanged(calls[c].encryptedVault.s, GoodContainer)

\* C12: decrypt under P of a container encrypt made under P, with any one
\* byte of its ciphertext or tag changed, rejects and yields no plaintext, and
\* unlockVault(P) on such a container returns null
C12_TamperDetected ==
  /\ \A j \in ProbesOf("decryptTampered") :
       (/\ probes[j].password = probes[1].password
        /\ OneByteChanged(probes[j].arg, probes[1].out.s))
         => (probes[j].rejected /\ probes[j].out = JUndefined)
  /\ \A c \in Slots : ReadTampered(c) => calls[c].ret = JNull

\* the slots hold the artifact of P and a container of P whose last tag byte
\* was changed, and unlockVault(P) has verified P, read the container and
\* returned null
C12_Witness ==
  \E c \in Slots :
    /\ ReadTampered(c)
    /\ calls[c].encryptedVault.s =
         TamperByte(GoodContainer, Len(base64ToUint8Array(GoodContainer).bytes) - 1, 255)
    /\ calls[c].storedHash = JStr(GoodHash)
    /\ calls[c].ret = JNull

(***************************************************************************)
(* C13                                                                     *)
(***************************************************************************)
\* what importVault(data) has left in the two slots and what it returned
ImportOutcome(data) ==
  [ret |-> importVault_result(localStorage, data).ret,
   encrypted |-> localStorage'[VAULT_STORAGE_KEY],
   hash |-> localStorage'[MASTER_HASH_KEY]]

\* C13: importVault installs both slots or neither: it returns false and
\* leaves both slots as they were when the record lacks a member or does not
\* parse, both slots hold the record's values when it returns true, and in
\* no outcome is one slot replaced and the other not
C13_BothOrNeither ==
  [][\A data \in ImportFiles :
       importVault(data) =>
         /\ ~ImportRead(data).ok =>
              ~ImportOutcome(data).ret /\ localStorage' = localStorage
         /\ ImportOutcome(data).ret =>
              /\ ImportOutcome(data).encrypted = JStr(JsString(ImportRead(data).encrypted))
              /\ ImportOutcome(data).hash = JStr(JsString(ImportRead(data).hash))
         /\ ~ImportOutcome(data).ret => localStorage' = localStorage]_vars

(***************************************************************************)
(* C14                                                                     *)
(***************************************************************************)
\* the file is the export of a vault created with password P that holds the
\* collection C: its container is sealed from C under P and its artifact is
\* one of P
BackupTexts ==
  [C \in Collections, P \in Passwords |->
     {ExportText(JStr(Sealed(C, P, salt, iv)), JStr(Hashed(P, salt2))) :
        salt \in RandomValues(SALT_LENGTH), iv \in RandomValues(IV_LENGTH),
        salt2 \in RandomValues(SALT_LENGTH)}]
BackupOf(C, P) == backup.text.t = "str" /\ backup.text.s \in BackupTexts[C, P]

\* the file has been imported into the empty storage
Restored == backup.imported # JUndefined

\* an unlockVault(P) that followed the import has returned
UnlockedAfterRestore(c, P) ==
  /\ Restored
  /\ calls[c].op = "unlockVault" /\ calls[c].pc = "done"
  /\ calls[c].masterPassword = P

RestoredRoundTrip ==
  \A C \in Collections, P \in Passwords :
    (Restored /\ BackupOf(C, P)) =>
      /\ backup.imported = JBool(TRUE)
      /\ \A c \in Slots : UnlockedAfterRestore(c, P) => SameValue(calls[c].ret, C)

\* the step in which exportVault is called
ExportStep == backup.text = JUndefined /\ backup'.text # JUndefined

ExportReadsOnly ==
  ExportStep =>
    /\ localStorage' = localStorage
    /\ (localStorage[VAULT_STORAGE_KEY] = JNull \/ localStorage[MASTER_HASH_KEY] = JNull)
         => backup'.text = JNull

\* C14: for a vault created with password P that holds the collection C,
\* importVault of what exportVault returned, into an empty storage, returns
\* true, and an unlockVault(P) that follows returns C; exportVault leaves both
\* slots as they are and returns null whenever one of them is absent
C14_ExportImportRoundTrip == [](RestoredRoundTrip) /\ [][ExportReadsOnly]_vars

\* a saved vault of two credentials was exported, imported into the empty
\* storage, and unlocked with its password
C14_Witness ==
  /\ BackupOf(JArr(<<Cred2, Cred1>>), PwA)
  /\ backup.imported = JBool(TRUE)
  /\ \E c \in Slots :
       /\ UnlockedAfterRestore(c, PwA)
       /\ SameValue(calls[c].ret, JArr(<<Cred2, Cred1>>))

(***************************************************************************)
(* C15                                                                     *)
(***************************************************************************)
\* the saveVault calls that have sealed and not yet stored their container
SavesInFlight == {c \in Slots : calls[c].op = "saveVault" /\ InFlight(c)}

\* C15: in every reachable state of VaultDashboard at most one saveVault
\* call is in flight: no handler starts a seal while an earlier one has not
\* stored its container
C15_OneSaveInFlight == index.isUnlocked => Cardinality(SavesInFlight) <= 1

(***************************************************************************)
(* C16                                                                     *)
(***************************************************************************)
\* a handler of the dashboard starts saveVault in slot c
SaveStarts(c) == calls[c].op = "idle" /\ calls'[c].op = "saveVault"

\* the saveVault call in slot c stores its container and completes, and no
\* other save is in flight then
SaveCompletesAlone(c) ==
  /\ calls[c].pc = "sv136" /\ calls'[c].pc = "done"
  /\ \A d \in Slots \ {c} : ~(calls'[d].op = "saveVault" /\ calls'[d].pc # "done")

\* C16: every mutation of the dashboard calls saveVault with the whole
\* updated collection, and once that call completes with no other save in
\* flight the stored container decrypts under the master password to the
\* collection the dashboard holds
C16_SavedIsShown ==
  [][\A c \in Slots :
       /\ SaveStarts(c) =>
            /\ calls'[c].credentials = index'.credentials
            /\ calls'[c].masterPassword = index'.masterPassword
       /\ (SaveCompletesAlone(c) /\ index'.isUnlocked) =>
            SameValue(Unlocked(localStorage'[VAULT_STORAGE_KEY].s, index'.masterPassword),
                      index'.credentials)]_vars

(***************************************************************************)
(* C17                                                                     *)
(***************************************************************************)
BothAbsent(ls) == ls[VAULT_STORAGE_KEY] = JNull /\ ls[MASTER_HASH_KEY] = JNull

\* unlockVault is called in slot c
UnlockStarts(c) == calls[c].op = "idle" /\ calls'[c].op = "unlockVault"

\* the state deleteVault returns in
Cleared ==
  deleteVault =>
    /\ BothAbsent(localStorage')
    /\ ~vaultExists(localStorage')
    /\ exportVault(localStorage') = JNull

\* unlockVault called on storage with both slots absent
UnlockOfCleared ==
  \A c \in Slots :
    (BothAbsent(localStorage) /\ UnlockStarts(c)) =>
      /\ calls'[c].pc = "done" /\ calls'[c].ret = JNull
      /\ localStorage' = localStorage

\* C17: deleteVault clears both slots in one step: when it returns both
\* slots are absent, vaultExists() is false and exportVault() is null, and
\* unlockVault called then returns null for every password
C17_DeleteClears == [][Cleared /\ UnlockOfCleared]_vars

\* a vault was created, deleted, and an unlockVault that followed returned
\* null
C17_Witness ==
  /\ BothAbsent(localStorage)
  /\ \E d \in Slots : calls[d].op = "createVault" /\ calls[d].pc = "done"
  /\ \E c \in Slots :
       /\ calls[c].op = "unlockVault" /\ calls[c].storedHash = JNull
       /\ calls[c].pc = "done" /\ calls[c].ret = JNull

(***************************************************************************)
(* C18                                                                     *)
(***************************************************************************)
\* the call of unlockVault in slot c has called decrypt (line 121): it is
\* suspended there, or it went on from there with the container it read
DecryptAttempted(c) ==
  /\ calls[c].op = "unlockVault"
  /\ calls[c].pc = "uv121" \/ (calls[c].pc = "done" /\ ~Falsy(calls[c].encryptedVault))

\* verifyPassword has returned true for the password of the call against
\* the artifact the call read
VerifiedTrue(c) ==
  /\ calls[c].storedHash.t = "str"
  /\ Verified(calls[c].masterPassword, calls[c].storedHash.s).result

\* C18: unlockVault attempts the decryption of the stored container only
\* after verifyPassword has returned true for the candidate password against
\* the stored artifact; when verification fails or master_hash is absent no
\* decrypt happens and the call returns null
C18_VerifyBeforeDecrypt ==
  \A c \in Slots :
    /\ DecryptAttempted(c) => VerifiedTrue(c)
    /\ (UnlockDone(c) /\ ~VerifiedTrue(c)) =>
         calls[c].encryptedVault = JUndefined /\ calls[c].ret = JNull

\* one unlockVault has decrypted the container after its password verified,
\* and another, with a password that does not verify, has returned without
\* reading the container
C18_Witness ==
  \E c \in Slots, d \in Slots :
    /\ UnlockDone(c) /\ DecryptAttempted(c) /\ VerifiedTrue(c)
    /\ UnlockDone(d) /\ calls[d].storedHash.t = "str" /\ ~VerifiedTrue(d)
    /\ calls[d].encryptedVault = JUndefined

(***************************************************************************)
(* C19                                                                     *)
(***************************************************************************)
\* the unlockVault call in slot c finds its password verified and no
\* container (line 115)
RecoveryStarts(c) ==
  /\ calls[c].op = "unlockVault"
  /\ calls[c].pc = "uv110" /\ calls'[c].pc # "uv110"
  /\ VerifiedTrue(c)
  /\ localStorage[VAULT_STORAGE_KEY] = JNull

\* the createVault it called has stored its container, and unlockVault
\* returns (lines 116-117)
RecoveryCompletes(c) ==
  /\ calls[c].op = "unlockVault"
  /\ calls[c].pc = "cv101" /\ calls'[c].pc = "done"

\* the storage holds a vault of password P with no credentials: unlockVault(P)
\* would verify P and return the empty list
EmptyVaultOf(ls, P) ==
  /\ ls[MASTER_HASH_KEY] # JNull /\ ls[VAULT_STORAGE_KEY] # JNull
  /\ Verified(P, ls[MASTER_HASH_KEY].s).result
  /\ Unlocked(ls[VAULT_STORAGE_KEY].s, P) = JArr(<< >>)

\* C19: when master_hash is present and verifies P but encrypted_vault is
\* absent, unlockVault(P) creates an empty vault under P and returns the
\* empty list; once it completes both slots are present, the new artifact
\* verifies P and a further unlockVault(P) returns the empty list
C19_RecoveryLeavesVault ==
  [][\A c \in Slots :
       /\ RecoveryStarts(c) => calls'[c].pc = "cv93"
       /\ RecoveryCompletes(c) =>
            /\ calls'[c].ret = JArr(<< >>)
            /\ EmptyVaultOf(localStorage', calls[c].masterPassword)]_vars

(***************************************************************************)
(* C20                                                                     *)
(***************************************************************************)
\* vaultExists() tells whether the master_hash slot holds a string, with the
\* container present or not
ExistsIsArtifact == vaultExists(localStorage) <=> localStorage[MASTER_HASH_KEY].t = "str"

\* unlockVault called while master_hash is absent has returned null by the
\* time the caller awaits it, and the storage is as it was
UnlockOfAbsent ==
  \A c \in Slots :
    (UnlockStarts(c) /\ ~vaultExists(localStorage)) =>
      /\ calls'[c].pc = "done" /\ calls'[c].ret = JNull
      /\ calls'[c].encryptedVault = JUndefined
      /\ localStorage' = localStorage

\* C20: vaultExists() is true exactly when the master_hash slot is present,
\* whatever the state of encrypted_vault, and unlockVault with master_hash
\* absent returns null, as for a wrong password, and writes nothing
C20_AbsentOnlyByVaultExists == [](ExistsIsArtifact) /\ [][UnlockOfAbsent]_vars

\* only the container is present, vaultExists() is false, and an unlockVault
\* called then has returned null
C20_Witness ==
  /\ localStorage[VAULT_STORAGE_KEY] # JNull
  /\ ~vaultExists(localStorage)
  /\ \E c \in Slots :
       /\ UnlockDone(c) /\ calls[c].storedHash = JNull
       /\ calls[c].ret = JNull

(***************************************************************************)
(* C21                                                                     *)
(***************************************************************************)
\* the serialized collections, and the secrets that must stay in memory
Plaintexts ==
  {JSONstringify(VaultData(C, VAULT_VERSION)) : C \in Collections} \cup AppPlaintexts
Secrets == Candidates \cup Plaintexts
\* what hashPassword and encrypt return for the inputs of the model
HashOutputs == Range(HashTable)
EncryptOutputs == Range(SealTable)

\* C21: across every sequence of createVault, unlockVault and saveVault the
\* master_hash slot holds nothing but an output of hashPassword and the
\* encrypted_vault slot nothing but an output of encrypt; neither a master
\* password nor a serialized collection is in a slot
C21_OnlySealedStored ==
  /\ localStorage[MASTER_HASH_KEY] # JNull =>
       /\ localStorage[MASTER_HASH_KEY].s \in HashOutputs
       /\ localStorage[MASTER_HASH_KEY].s \notin Secrets
  /\ localStorage[VAULT_STORAGE_KEY] # JNull =>
       /\ localStorage[VAULT_STORAGE_KEY].s \in EncryptOutputs
       /\ localStorage[VAULT_STORAGE_KEY].s \notin Secrets

\* a collection of two credentials was saved, an unlockVault has returned
\* it, and both slots hold sealed material
C21_Witness ==
  /\ localStorage[MASTER_HASH_KEY] # JNull
  /\ localStorage[VAULT_STORAGE_KEY] # JNull
  /\ \E c \in Slots :
       /\ UnlockDone(c) /\ SameValue(calls[c].ret, JArr(<<Cred2, Cred1>>))
       /\ calls[c].encryptedVault = localStorage[VAULT_STORAGE_KEY]

(***************************************************************************)
(* C22: identifiers of credentials                                         *)
(***************************************************************************)
K_updatedAt == <<117, 112, 100, 97, 116, 101, 100, 65, 116>>
IdOf(credential) == GetProp(credential, K_id).v
CreatedAtOf(credential) == GetProp(credential, K_createdAt).v
IdsOf(credentials) == [i \in 1..Len(credentials.a) |-> IdOf(credentials.a[i])]

UniqueIds ==
  \A i, j \in 1..Len(index.credentials.a) :
    IdOf(index.credentials.a[i]) = IdOf(index.credentials.a[j]) => i = j

\* the form of the i-th card is submitted: the card keeps its place, its id
\* and its createdAt, and the other cards are left as they are
EditKeepsIdentity ==
  \A c \in Slots, i \in 1..Cardinality(AppIds), fields \in FormFields,
     id \in AppIds, now \in Clock :
    editCredential(c, i, fields, id, now, Salt0, Iv0) =>
      /\ Len(index'.credentials.a) = Len(index.credentials.a)
      /\ IdOf(index'.credentials.a[i]) = IdOf(index.credentials.a[i])
      /\ CreatedAtOf(index'.credentials.a[i]) = CreatedAtOf(index.credentials.a[i])
      /\ index'.credentials.a[i] = newCredential(index.credentials.a[i], fields, id, now)
      /\ \A j \in 1..Len(index.credentials.a) :
           j # i => index'.credentials.a[j] = index.credentials.a[j]

\* the form of a new credential is submitted: it takes the place of the card
\* that has its id, and goes to the end when there is none
AddReplacesOrAppends ==
  \A c \in Slots, fields \in FormFields, id \in AppIds, now \in Clock :
    addCredential(c, fields, id, now, Salt0, Iv0) =>
      IF HasId(index.credentials, id)
      THEN /\ IdsOf(index'.credentials) = IdsOf(index.credentials)
           /\ \A j \in 1..Len(index.credentials.a) :
                index'.credentials.a[j] =
                  IF IdOf(index.credentials.a[j]) = JStr(id)
                  THEN newCredential(JNull, fields, id, now)
                  ELSE index.credentials.a[j]
      ELSE index'.credentials.a =
             Append(index.credentials.a, newCredential(JNull, fields, id, now))

\* a step of the dashboard that keeps the number of cards keeps their ids
\* and their createdAt
SameCardsKeepIds ==
  (/\ index.isUnlocked /\ index'.isUnlocked
   /\ Len(index'.credentials.a) = Len(index.credentials.a)) =>
    /\ IdsOf(index'.credentials) = IdsOf(index.credentials)
    /\ \A i \in 1..Len(index.credentials.a) :
         \/ CreatedAtOf(index'.credentials.a[i]) = CreatedAtOf(index.credentials.a[i])
         \/ \E c \in Slots, fields \in FormFields, id \in AppIds, now \in Clock :
              addCredential(c, fields, id, now, Salt0, Iv0)

\* C22: over any sequence of add, edit, toggle-favorite and delete actions,
\* editing a credential keeps its id and createdAt, handleSave replaces an
\* existing id in place (same position, same list length) and appends
\* otherwise, and no two credentials of the in-memory collection share an id
C22_IdsImmutableUnique ==
  /\ [](UniqueIds)
  /\ [][(index.isUnlocked /\ index'.isUnlocked /\ index' # index) =>
          (EditKeepsIdentity /\ AddReplacesOrAppends /\ SameCardsKeepIds)]_vars

\* two cards, the first one created at 1 and edited at 2
C22_Witness ==
  /\ index.isUnlocked
  /\ Len(index.credentials.a) = 2
  /\ CreatedAtOf(index.credentials.a[1]) = JNum(1)
  /\ GetProp(index.credentials.a[1], K_updatedAt).v = JNum(2)
  /\ CreatedAtOf(index.credentials.a[2]) = JNum(2)

(***************************************************************************)
(* C23: the stored container when no save is in flight                     *)
(***************************************************************************)
\* C23: whenever the vault is unlocked and no saveVault call is in flight,
\* the persisted container decrypts to the current in-memory collection, for
\* every order in which overlapping saveVault calls may complete
C23_QuiescentConsistent ==
  (/\ index.isUnlocked
   /\ SavesInFlight = {}
   /\ localStorage[VAULT_STORAGE_KEY] # JNull) =>
    SameValue(Unlocked(localStorage[VAULT_STORAGE_KEY].s, index.masterPassword),
              index.credentials)

(***************************************************************************)
(* C24: what an unlock leaves behind                                       *)
(***************************************************************************)
\* the call has not gone into the recovery branch (line 116), the one path
\* of unlockVault that writes
NotRecovering(call) == call.hash = JUndefined /\ call.encrypted = JUndefined

\* a step of an unlockVault call outside the recovery branch writes nothing
UnlockWritesNothing ==
  \A c \in Slots :
    (/\ calls'[c] # calls[c]
     /\ calls[c].op = "unlockVault" \/ calls'[c].op = "unlockVault"
     /\ NotRecovering(calls'[c])) =>
      localStorage' = localStorage

\* a call that returned null never was in the recovery branch
NullNeverWrote ==
  \A c \in Slots :
    (UnlockDone(c) /\ calls[c].ret = JNull) => NotRecovering(calls[c])

\* the outcome of a call is that of its password and of what it read from
\* the two slots, whatever the attempts before it
NoAttemptCounter ==
  \A c \in Slots :
    (UnlockDone(c) /\ VerifiedTrue(c)) =>
      IF calls[c].encryptedVault.t = "str"
      THEN calls[c].ret = Unlocked(calls[c].encryptedVault.s, calls[c].masterPassword)
      ELSE calls[c].ret = JArr(<< >>)

\* C24: every unlockVault call that returns null leaves master_hash and
\* encrypted_vault unchanged and keeps no attempt counter, so after failed
\* attempts unlockVault with the correct password still returns the stored
\* collection; a successful unlock of an existing container also leaves both
\* slots unchanged
C24_FailedUnlockChangesNothing ==
  /\ [](NullNeverWrote /\ NoAttemptCounter)
  /\ [][UnlockWritesNothing]_vars

\* a failed attempt on a vault, and the unlock of the same vault with its
\* password
C24_Witness ==
  /\ localStorage[MASTER_HASH_KEY] # JNull
  /\ localStorage[VAULT_STORAGE_KEY] # JNull
  /\ \E c, d \in Slots :
       /\ UnlockDone(c) /\ calls[c].ret = JNull
       /\ calls[c].storedHash = localStorage[MASTER_HASH_KEY]
       /\ UnlockDone(d) /\ calls[d].ret = JArr(<< >>)
       /\ calls[d].encryptedVault = localStorage[VAULT_STORAGE_KEY]

(***************************************************************************)
(* C25: what the page holds while it is locked                             *)
(***************************************************************************)
\* C25: in every reachable state of the Index page where isUnlocked is
\* false, the in-memory credentials list is empty and the in-memory master
\* password is the empty string, also after handleLock while a saveVault
\* started before the lock is still completing
C25_NoSecretsWhileLocked ==
  ~index.isUnlocked =>
    /\ index.credentials = JArr(<< >>)
    /\ index.masterPassword = << >>

\* the page is locked while a saveVault of a card is at its await
C25_Witness ==
  /\ ~index.isUnlocked
  /\ \E c \in Slots :
       /\ calls[c].op = "saveVault" /\ calls[c].pc = "sv136"
       /\ Len(calls[c].credentials.a) > 0
       /\ calls[c].masterPassword = PwA

(***************************************************************************)
(* C26: the password of the artifact and of the container                  *)
(***************************************************************************)
\* C26: in every state with no vault operation in flight where both slots
\* are present, there is a password P such that verifyPassword(P,
\* master_hash) is true and decrypt(encrypted_vault, P) succeeds, for every
\* interleaving of createVault calls and of saveVault calls made with the
\* password of the vault
C26_SamePassword ==
  (/\ \A c \in Slots : ~InFlight(c)
   /\ localStorage[MASTER_HASH_KEY] # JNull
   /\ localStorage[VAULT_STORAGE_KEY] # JNull) =>
    \E P \in Candidates :
      /\ Verified(P, localStorage[MASTER_HASH_KEY].s).result
      /\ Unlocked(localStorage[VAULT_STORAGE_KEY].s, P) # JNull

(***************************************************************************)
(* C27: creation over an existing vault                                    *)
(***************************************************************************)
\* the form calls createVault (CredentialForm.tsx line 284)
CreateStarts(c) == calls[c].op # "createVault" /\ calls'[c].op = "createVault"
\* createVault stores the container of the empty collection (line 102)
CreateStoresEmpty(c) ==
  calls[c].op = "createVault" /\ calls[c].pc = "cv101" /\ calls'[c].pc = "done"

\* C27: in the master-password form createVault is called only when no
\* vault exists in storage, and its empty collection never replaces a
\* stored one while master_hash and encrypted_vault are both present
C27_CreateOnlyWhenAbsent ==
  [][\A c \in Slots :
       /\ CreateStarts(c) => ~vaultExists(localStorage)
       /\ CreateStoresEmpty(c) => localStorage[VAULT_STORAGE_KEY] = JNull]_vars

(***************************************************************************)
(* C28: the master-password form runs one operation and finishes it        *)
(***************************************************************************)
\* the calls that handleSubmit has started and not yet taken the result of
PendingSubmits == {c \in Slots : calls[c].op # "idle"}

OneSubmitAtATime ==
  PendingSubmits # {} =>
    /\ form.isLoading
    /\ ~index.isUnlocked
    /\ Cardinality(PendingSubmits) <= 1

\* handleSubmit refuses the passwords (lines 274-283)
SubmitRefused ==
  /\ form'.error \in {ErrMismatch, ErrTooShort}
  /\ form'.error # form.error

RefusedWritesNothing ==
  SubmitRefused => (localStorage' = localStorage /\ calls' = calls /\ ~form'.isLoading)

\* C28: while a createVault or unlockVault started by handleSubmit is
\* pending isLoading is true and a second submit cannot start; on every path
\* (mismatch, password shorter than 8 characters, unlock failure, thrown
\* error, success) isLoading eventually returns to false; a rejected create
\* writes nothing to storage
C28_OneSubmitAndFinishes ==
  /\ [](OneSubmitAtATime)
  /\ [][RefusedWritesNothing]_vars
  /\ (form.isLoading ~> ~form.isLoading)

\* the unlock of an existing vault has failed and the form can be submitted
\* again
C28_Witness ==
  /\ vaultExists(localStorage)
  /\ ~index.isUnlocked
  /\ form.error = ErrInvalid
  /\ ~form.isLoading
  /\ PendingSubmits = {}

=============================================================================
